---- MODULE Spec2Model ----
(***************************************************************************)
(* Hamamatsu C12666MA driver of the Spectron board                         *)
(* (firmware/Spectron_12666/C12666MA.cpp): the timer-driven readout state  *)
(* machine, the ADC sampling interrupt, and the measurement calls that     *)
(* start a readout cycle and wait for it.                                  *)
(*                                                                         *)
(* Execution contexts, by priority (single core):                          *)
(*   TIM7 update interrupt (preemption priority 0)  spectroClockInterrupt  *)
(*   EXTI software interrupt (preemption priority 1) spectroTRGInterrupt   *)
(*   the calling thread                                                    *)
(* The tick handler runs to completion (nothing preempts it); it may run   *)
(* between any two statements of the sampling interrupt; the calling       *)
(* thread runs only while no sampling interrupt is active or pending.      *)
(***************************************************************************)
EXTENDS Integers, Sequences, FiniteSets, TLC

(* ------------------------------------------------------------------ *)
(* Bounds of the model                                                  *)
(* ------------------------------------------------------------------ *)
\* SPEC_PIXELS ranges over 1..MaxPixels (256 on the real sensor)
MaxPixels == 2
\* geometries for which the waveform table is built: pixels, ticks per pixel
MaxTablePixels == 8
MaxTableTicks == 10
\* iterations of the integration search of takeAutoMeasurement that are followed
MaxSearchSteps == 3
\* calls the application makes in one behaviour
MaxApiCalls == 2
\* pixels of the vectors read back through the getters
MaxReadPixels == 3
\* iterations of the auto-exposure search followed on a flat source
MaxFlatSteps == 40

(* ------------------------------------------------------------------ *)
(* Program constants                                                    *)
(* ------------------------------------------------------------------ *)
LOW == 0
HIGH == 1
CLK_HIGH == 1
ST_BIT == 1
READY_BIT == 2
TIMER_US_FACTOR == 10
SPEC_CLK_TICK_TIMER_AVG2 == 50
SPEC_CLK_TICK_TIMER_AVG4 == 85
SENSOR_TICKS_PER_PIXEL == 8
MIN_INTEG_TIME_US == 1000
MAX_INTEG_TIME_US == 10000000
DEF_LEAD_TICKS == 64
TRAIL_TICKS == 12
ADC_MAX_VALUE == 65535
FIRST_READY_TICK == 7
NULL == -1
NO_PIN == "NO_PIN"

SpecStates == <<"LEAD", "RESET", "RESET2", "INTEGRATION", "READ", "TRAIL", "STOP">>
StateSet == {SpecStates[i] : i \in 1..7}

\* position of a state in spec_state_t
Ord(s) == CHOOSE i \in 1..7 : SpecStates[i] = s

VARIABLES
    \* build parameters (fixed after Init)
    SPEC_PIXELS, TICKS_PER_PIXEL, ADC_AVG_4, specRead,
    \* file-scope statics of the timing state machine
    timerOn, specState, specDataReady, specCLK, specST, specCounter,
    extTRGCounter, specData, specDataCounter, LEAD_TICKS, INTEG_TICKS,
    extPinTRG, extPinLIGHT,
    \* raw accumulators
    data, dataCounts,
    \* output pins, EXTI pending / mask bit of the TRG line, sampling ISR frame
    pins, trgPending, trgEnabled, isr,
    \* C12666MA members
    measuringData_, gain_, adcRef_, measurementType_, extTrgMeasDelayUs_,
    satVoltageHighGain_, satVoltageNoGain_, calibration_,
    applyBandPassCorrection_, data_, blackLevels_,
    \* EEPROM contents
    eeprom,
    \* the calling thread's frame
    call,
    \* environment: the ADC code the sensor currently yields, the light on
    \* the sensor, the number of calls the application has made so far
    adcCode, source, apiCalls,
    \* the value the last getter or function call returned, and the frame of
    \* the host's colour calculation (xyz[], CCT, x, y)
    ret, colour,
    \* history variables (not program state)
    lastOp, tickNo, ticksIn, readyCount, lastReadyTick, readyGap, advances,
    misplaced, oobWrite

buildVars == <<SPEC_PIXELS, TICKS_PER_PIXEL, ADC_AVG_4, specRead>>
machVars  == <<timerOn, specState, specDataReady, specCLK, specST, specCounter,
               extTRGCounter, specData, specDataCounter, LEAD_TICKS,
               extPinTRG, extPinLIGHT>>
accVars   == <<data, dataCounts>>
irqVars   == <<trgPending, trgEnabled, isr>>
cfgVars   == <<gain_, adcRef_, measurementType_, extTrgMeasDelayUs_,
               satVoltageHighGain_, satVoltageNoGain_, calibration_,
               applyBandPassCorrection_>>
resVars   == <<data_, blackLevels_>>
hostVars  == <<ret, colour>>
envVars   == <<adcCode, source, apiCalls, hostVars>>
histVars  == <<tickNo, ticksIn, readyCount, lastReadyTick, readyGap, advances,
               misplaced, oobWrite>>
vars == <<buildVars, machVars, INTEG_TICKS, accVars, pins, irqVars,
          measuringData_, cfgVars, resVars, eeprom, call, envVars,
          lastOp, histVars>>

(* ------------------------------------------------------------------ *)
(* Macros of the timing section                                         *)
(* ------------------------------------------------------------------ *)
SPEC_CLK_TICK_TIMER ==
    IF ADC_AVG_4 THEN SPEC_CLK_TICK_TIMER_AVG4 ELSE SPEC_CLK_TICK_TIMER_AVG2

\* uint32_t arithmetic: a 32-bit pattern is held as <<high, low>> 16-bit
\* words; a pattern with the top bit set is written as the negative integer
\* of the same two's complement pattern (-1 is 0xFFFFFFFF)
WORD == 65536
Words(x) == <<(x \div WORD) % WORD, x % WORD>>
\* w * k, wrapping mod 2^32, and w / k, for a small k
WordsMul(w, k) == <<(w[1] * k + ((w[2] * k) \div WORD)) % WORD, (w[2] * k) % WORD>>
WordsDiv(w, k) == <<w[1] \div k, ((w[1] % k) * WORD + w[2]) \div k>>
\* the pattern as an integer (negative with the top bit set)
WordsValue(w) == (IF w[1] >= WORD \div 2 THEN w[1] - WORD ELSE w[1]) * WORD + w[2]
\* x * k / d as the 32-bit code computes it
MulDiv32(x, k, d) == WordsValue(WordsDiv(WordsMul(Words(x), k), d))

ticksToUsec(x) == MulDiv32(x, SPEC_CLK_TICK_TIMER, TIMER_US_FACTOR)
uSecToTicks(x) == MulDiv32(x, TIMER_US_FACTOR, SPEC_CLK_TICK_TIMER)

ReadTicks(N, T) == N * T + TRAIL_TICKS
READ_TICKS == ReadTicks(SPEC_PIXELS, TICKS_PER_PIXEL)
EXT_TRG_HIGH_TICKS == uSecToTicks(1000)

\* bit tests on a waveform-table entry
HasBit(b, bit) == (b \div bit) % 2 = 1

\* a faulty variant: the READY loop stepping two pixels at a time
ReadyLoopHitsSparse(i, N, T) ==
    /\ i >= FIRST_READY_TICK
    /\ i < N * T + 1
    /\ (i - FIRST_READY_TICK) % (2 * T) = 0

\* initSpecTimerData: every entry gets ST high, entries 0 and 1 get ST low,
\* and READY is set at i = 7, 7+T, ... while i < N*T + 1
ReadyLoopHits(i, N, T) ==
    /\ i >= FIRST_READY_TICK
    /\ i < N * T + 1
    /\ (i - FIRST_READY_TICK) % T = 0

\* a faulty variant: only entry 0 of the table gets ST low
initSpecTimerDataShortStart(N, T) ==
    [i \in 0..(ReadTicks(N, T) - 1) |->
        (IF i = 0 THEN 0 ELSE ST_BIT)
      + (IF ReadyLoopHits(i, N, T) THEN READY_BIT ELSE 0)]

\* the waveform table as initSpecTimerData fills it
initSpecTimerData(N, T) ==
    [i \in 0..(ReadTicks(N, T) - 1) |->
        (IF i \in {0, 1} THEN 0 ELSE ST_BIT)
      + (IF ReadyLoopHits(i, N, T) THEN READY_BIT ELSE 0)]

StBit(i) == IF HasBit(specRead[i], ST_BIT) THEN HIGH ELSE LOW

(* ------------------------------------------------------------------ *)
(* Enumerations of C12666MA.h as used by the driver                     *)
(* ------------------------------------------------------------------ *)
ADC_2_5V == 0
ADC_3V == 1
ADC_4_096V == 2
ADC_5V == 3
AdcRefs == {ADC_2_5V, ADC_3V, ADC_4_096V, ADC_5V}
Gains == {"NO_GAIN", "HIGH_GAIN"}
MeasureTypes == {"MEASURE_RELATIVE", "MEASURE_VOLTAGE", "MEASURE_ABSOLUTE"}

\* ADC reference voltages, in millivolts (adcVoltages[] = 2.5, 3.0, 4.096, 5.0)
adcVoltages == [r \in AdcRefs |->
    CASE r = ADC_2_5V -> 2500 [] r = ADC_3V -> 3000
      [] r = ADC_4_096V -> 4096 [] OTHER -> 5000]

\* saturation voltage limits of the sensor, in millivolts
MIN_SAT_VOLTAGE_HIGH_GAIN == 2300
MAX_SAT_VOLTAGE_HIGH_GAIN == 4000
MIN_SAT_VOLTAGE_NO_GAIN == 1400
MAX_SAT_VOLTAGE_NO_GAIN == 2700

(* ------------------------------------------------------------------ *)
(* Exact fractions <<numerator, denominator>> stand for the floats      *)
(* ------------------------------------------------------------------ *)
RECURSIVE GCD(_, _)
GCD(a, b) == IF b = 0 THEN a ELSE GCD(b, a % b)

Frac(n, d) == IF n = 0 THEN <<0, 1>> ELSE <<n \div GCD(n, d), d \div GCD(n, d)>>
FracZero == <<0, 1>>
\* <<q, r>> with a * b = q * c + r and 0 <= r < c, without forming a * b
\* (the half is bound once and doubled)
MulDivDouble(h, a, b, c) ==
    LET q2 == 2 * h[1] + ((2 * h[2]) \div c)
        r2 == (2 * h[2]) % c
    IN IF b % 2 = 0 THEN <<q2, r2>>
       ELSE <<q2 + (a \div c) + ((r2 + (a % c)) \div c), (r2 + (a % c)) % c>>

RECURSIVE MulDivQR(_, _, _)
MulDivQR(a, b, c) ==
    IF b = 0 THEN <<0, 0>>
    ELSE CHOOSE r \in {MulDivDouble(h, a, b, c) : h \in {MulDivQR(a, b \div 2, c)}} : TRUE

\* a < b, that is a[1] * b[2] < b[1] * a[2], without forming the products
FracLess(a, b) ==
    \E x \in {a}, y \in {b} : MulDivQR(x[1], y[2], x[2])[1] < y[1]

Pixels == 0..(SPEC_PIXELS - 1)
ZeroInts == [i \in Pixels |-> 0]
ZeroFracs == [i \in Pixels |-> FracZero]

(* ------------------------------------------------------------------ *)
(* Pin output                                                           *)
(* ------------------------------------------------------------------ *)
PinNames == {"CLK", "ST", "TRG", "LIGHT", "GAIN", "REF1", "REF2"}
\* pinSetFast / pinResetFast / pinSetVal on pin p (no output exists for NO_PIN)
pinWrite(ps, p, val) == IF p \in PinNames THEN [ps EXCEPT ![p] = val] ELSE ps

\* setGainInternal / setAdcRefInternal: the select pins
GainPin(g) == IF g = "NO_GAIN" THEN LOW ELSE HIGH
RefPin1(r) == IF r % 2 = 1 THEN HIGH ELSE LOW
RefPin2(r) == IF (r \div 2) % 2 = 1 THEN HIGH ELSE LOW

(* ------------------------------------------------------------------ *)
(* spectroClockInterrupt: one TIM7 update interrupt                     *)
(* ------------------------------------------------------------------ *)
\* a faulty variant: the counter stepped twice per tick
CountedTwice == specCounter + 2

\* ++specCounter, done first in every state but SPEC_STOP
Counted == specCounter + 1

\* the switch on specState: what one tick makes of the state machine
ClockSwitch ==
    LET c == Counted
        keep == [state |-> specState, counter |-> c, st |-> specST,
                 clk |-> (specCLK + CLK_HIGH) % 2,
                 ready |-> specDataReady, raise |-> FALSE,
                 endRead |-> FALSE, light |-> "keep"]
    IN CASE specState = "LEAD" ->
              IF c = LEAD_TICKS
              THEN [keep EXCEPT !.counter = 0, !.state = "RESET", !.st = StBit(0)]
              ELSE keep
         [] specState = "RESET" ->
              IF c = READ_TICKS
              THEN [keep EXCEPT !.counter = 0, !.state = "RESET2", !.st = StBit(0)]
              ELSE [keep EXCEPT !.st = StBit(c)]
         [] specState = "RESET2" ->
              IF c = READ_TICKS
              THEN [keep EXCEPT !.counter = 0, !.state = "INTEGRATION",
                                !.light = "set"]
              ELSE [keep EXCEPT !.st = StBit(c)]
         [] specState = "INTEGRATION" ->
              IF c = INTEG_TICKS
              THEN [keep EXCEPT !.counter = 0, !.state = "READ", !.st = StBit(0)]
              ELSE keep
         [] specState = "READ" ->
              LET rdy == HasBit(specRead[specCounter], READY_BIT)
                  k == [keep EXCEPT !.ready = rdy, !.raise = rdy]
              IN IF c = READ_TICKS
                 THEN [k EXCEPT !.counter = 0, !.state = "TRAIL", !.endRead = TRUE]
                 ELSE [k EXCEPT !.st = StBit(c)]
         [] specState = "TRAIL" ->
              IF c = TRAIL_TICKS
              THEN [keep EXCEPT !.counter = 0, !.state = "STOP", !.clk = LOW,
                                !.st = LOW, !.light = "reset"]
              ELSE keep
         [] OTHER ->   \* SPEC_STOP and default
              [keep EXCEPT !.counter = specCounter, !.clk = LOW]

\* the external trigger down-counter, processed after the switch
TrgCounterNext == IF extTRGCounter # 0 THEN extTRGCounter - 1 ELSE 0
TrgPinWrite ==
    IF extTRGCounter = 0 THEN "keep"
    ELSE IF TrgCounterNext = EXT_TRG_HIGH_TICKS THEN "set"
    ELSE IF TrgCounterNext = 0 THEN "reset" ELSE "keep"

\* a faulty variant: the light line never lowered by the handler
ClockPinsLightKept(sw) ==
    LET p1 == pinWrite(pinWrite(pins, "CLK", specCLK), "ST", specST)
        p2 == IF sw.light = "set" THEN pinWrite(p1, extPinLIGHT, HIGH) ELSE p1
    IN CASE TrgPinWrite = "set"   -> pinWrite(p2, extPinTRG, HIGH)
         [] TrgPinWrite = "reset" -> pinWrite(p2, extPinTRG, LOW)
         [] OTHER -> p2

\* a faulty variant: the clock line left alone while in SPEC_INTEGRATION
ClockPinsIdle(sw) ==
    LET p1 == pinWrite(pinWrite(pins, "CLK", IF specState = "INTEGRATION"
                                             THEN pins["CLK"] ELSE specCLK),
                       "ST", specST)
        p2 == CASE sw.light = "set"   -> pinWrite(p1, extPinLIGHT, HIGH)
                [] sw.light = "reset" -> pinWrite(p1, extPinLIGHT, LOW)
                [] OTHER -> p1
    IN CASE TrgPinWrite = "set"   -> pinWrite(p2, extPinTRG, HIGH)
         [] TrgPinWrite = "reset" -> pinWrite(p2, extPinTRG, LOW)
         [] OTHER -> p2

\* pins after the handler: CLK and ST first, then the light and trigger lines
ClockPins(sw) ==
    LET p1 == pinWrite(pinWrite(pins, "CLK", specCLK), "ST", specST)
        p2 == CASE sw.light = "set"   -> pinWrite(p1, extPinLIGHT, HIGH)
                [] sw.light = "reset" -> pinWrite(p1, extPinLIGHT, LOW)
                [] OTHER -> p1
    IN CASE TrgPinWrite = "set"   -> pinWrite(p2, extPinTRG, HIGH)
         [] TrgPinWrite = "reset" -> pinWrite(p2, extPinTRG, LOW)
         [] OTHER -> p2

\* a faulty variant: the handler without its timerOn test
TimerGuardOff == TRUE

\* the handler returns at once while the timer is not started
TimerGuard == timerOn

spectroClockInterrupt ==
    IF ~TimerGuard
    THEN /\ lastOp' = "idleTick"
         /\ UNCHANGED <<buildVars, machVars, INTEG_TICKS, accVars, pins, irqVars,
                        measuringData_, cfgVars, resVars, eeprom, call, envVars,
                        histVars>>
    ELSE LET sw == ClockSwitch
             counted == specState # "STOP"
         IN /\ specState' = sw.state
            /\ specCounter' = sw.counter
            /\ specST' = sw.st
            /\ specCLK' = sw.clk
            /\ specDataReady' = sw.ready
            /\ trgPending' = (trgPending \/ sw.raise)
            /\ specData' = IF sw.endRead THEN NULL ELSE specData
            /\ specDataCounter' = IF sw.endRead THEN NULL ELSE specDataCounter
            /\ extTRGCounter' = TrgCounterNext
            /\ pins' = ClockPins(sw)
            /\ lastOp' = "tick"
            /\ tickNo' = IF counted THEN tickNo + 1 ELSE tickNo
            /\ ticksIn' = IF counted THEN [ticksIn EXCEPT ![specState] = @ + 1]
                          ELSE ticksIn
            /\ readyCount' = IF sw.raise THEN readyCount + 1 ELSE readyCount
            /\ lastReadyTick' = IF sw.raise THEN tickNo' ELSE lastReadyTick
            /\ readyGap' = IF sw.raise /\ readyCount > 0
                           THEN tickNo' - lastReadyTick ELSE readyGap
            /\ UNCHANGED <<buildVars, timerOn, LEAD_TICKS, extPinTRG, extPinLIGHT,
                           INTEG_TICKS, accVars, trgEnabled, isr,
                           measuringData_, cfgVars, resVars, eeprom, call,
                           envVars, advances, misplaced, oobWrite>>

(* ------------------------------------------------------------------ *)
(* spectroTRGInterrupt and readADC: the sampling interrupt              *)
(* ------------------------------------------------------------------ *)
IsrIdle == [pc |-> "idle", d |-> NULL, c |-> NULL, rd |-> 0]
NumReads == IF ADC_AVG_4 THEN 4 ELSE 2

\* a store through the captured pointers: *data (op) DR and ++(*dataCounter)
AdcStore(first) ==
    IF isr.d \in Pixels /\ isr.c \in Pixels
    THEN /\ data' = [data EXCEPT ![isr.d] = IF first THEN adcCode ELSE @ + adcCode]
         /\ dataCounts' = [dataCounts EXCEPT ![isr.c] = @ + 1]
         /\ UNCHANGED oobWrite
    ELSE /\ oobWrite' = TRUE
         /\ UNCHANGED accVars

IsrFrame == UNCHANGED <<buildVars, timerOn, specState, specDataReady, specCLK,
                        specST, specCounter, extTRGCounter, LEAD_TICKS,
                        extPinTRG, extPinLIGHT, INTEG_TICKS, pins, trgEnabled,
                        measuringData_, cfgVars, resVars, eeprom, call, envVars,
                        tickNo, ticksIn, readyCount, lastReadyTick, readyGap>>

\* entry: the pending bit of the TRG line is tested and cleared
TrgEnter ==
    /\ isr.pc = "idle" /\ trgPending /\ trgEnabled
    /\ trgPending' = FALSE
    /\ isr' = [isr EXCEPT !.pc = "guard"]
    /\ lastOp' = "trg"
    /\ IsrFrame
    /\ UNCHANGED <<specData, specDataCounter, accVars, advances, misplaced, oobWrite>>

\* the test of the ready flag and of the cursor
TrgReady == specDataReady /\ specData # NULL

\* if (specDataReady && specData) readADC(specData++, specDataCounter++)
TrgGuard ==
    /\ isr.pc = "guard"
    /\ IF TrgReady
       THEN /\ isr' = [pc |-> "read1", d |-> specData, c |-> specDataCounter, rd |-> 1]
            /\ specData' = specData + 1
            /\ specDataCounter' = specDataCounter + 1
            /\ advances' = advances + 1
            /\ misplaced' = (misplaced \/ readyCount # specData + 1)
       ELSE /\ isr' = IsrIdle
            /\ UNCHANGED <<specData, specDataCounter, advances, misplaced>>
    /\ lastOp' = "trg"
    /\ IsrFrame
    /\ UNCHANGED <<trgPending, accVars, oobWrite>>

\* first conversion: the result is stored and counted
TrgRead1 ==
    /\ isr.pc = "read1"
    /\ AdcStore(TRUE)
    /\ isr' = [isr EXCEPT !.pc = "check", !.rd = 2]
    /\ lastOp' = "trg"
    /\ IsrFrame
    /\ UNCHANGED <<trgPending, specData, specDataCounter, advances, misplaced>>

\* before each further conversion: return if the ready flag is cleared
TrgCheck ==
    /\ isr.pc = "check"
    /\ isr' = IF ~specDataReady THEN IsrIdle ELSE [isr EXCEPT !.pc = "conv"]
    /\ lastOp' = "trg"
    /\ IsrFrame
    /\ UNCHANGED <<trgPending, specData, specDataCounter, accVars, advances,
                   misplaced, oobWrite>>

\* a further conversion: its result is added only if the flag is still set
TrgConv ==
    /\ isr.pc = "conv"
    /\ IF specDataReady THEN AdcStore(FALSE) ELSE UNCHANGED <<accVars, oobWrite>>
    /\ isr' = IF isr.rd < NumReads
              THEN [isr EXCEPT !.pc = "check", !.rd = @ + 1] ELSE IsrIdle
    /\ lastOp' = "trg"
    /\ IsrFrame
    /\ UNCHANGED <<trgPending, specData, specDataCounter, advances, misplaced>>

spectroTRGInterrupt == TrgEnter \/ TrgGuard \/ TrgRead1 \/ TrgCheck \/ TrgConv

(* ------------------------------------------------------------------ *)
(* Integration time                                                     *)
(* ------------------------------------------------------------------ *)
\* setIntTime behind its guard: the new INTEG_TICKS for a request of timeUs;
\* timeUs * TIMER_US_FACTOR wraps mod 2^32 (a product with the top bit set
\* is above every limit)
SetIntTimeTicks(timeUs) ==
    LET requested == WordsValue(WordsMul(Words(timeUs), TIMER_US_FACTOR))
        minIntTime == SPEC_CLK_TICK_TIMER * READ_TICKS
                      + MIN_INTEG_TIME_US * TIMER_US_FACTOR
        maxIntTime == MAX_INTEG_TIME_US * TIMER_US_FACTOR
        atLeast == IF requested >= 0 /\ requested < minIntTime
                   THEN minIntTime ELSE requested
        intTime == IF atLeast < 0 \/ atLeast > maxIntTime
                   THEN maxIntTime ELSE atLeast
        ticks == (intTime \div SPEC_CLK_TICK_TIMER) - READ_TICKS + 1
        nonZero == IF ticks = 0 THEN uSecToTicks(MIN_INTEG_TIME_US) ELSE ticks
    IN IF nonZero % 2 = 1 THEN nonZero + 1 ELSE nonZero

\* getIntTime
getIntTime == ticksToUsec(INTEG_TICKS + READ_TICKS)

(* ------------------------------------------------------------------ *)
(* processMeasurement                                                   *)
(* ------------------------------------------------------------------ *)
SatVoltage == IF gain_ = "HIGH_GAIN" THEN satVoltageHighGain_ ELSE satVoltageNoGain_

\* a faulty variant: every measurement type computed as the relative one
measureOneRelative(S, C, measurementType, vRef, vSat) ==
    IF C = 0 THEN FracZero ELSE Frac(S, C * ADC_MAX_VALUE)

\* one pixel: 0 for a count of 0, else by measurement type (volts as fractions)
measureOne(S, C, measurementType, vRef, vSat) ==
    IF C = 0 THEN FracZero
    ELSE CASE measurementType = "MEASURE_VOLTAGE" ->
                Frac(S * vRef, C * ADC_MAX_VALUE * 1000)
           [] measurementType = "MEASURE_ABSOLUTE" ->
                Frac(S * vRef, vSat * C * ADC_MAX_VALUE)
           [] OTHER ->
                Frac(S, C * ADC_MAX_VALUE)

\* the vector written to measurement[]
processMeasurement(acc, counts, measurementType) ==
    [i \in Pixels |->
        measureOne(acc[i], counts[i], measurementType, adcVoltages[adcRef_], SatVoltage)]

\* the returned maximum (maxVal starts at 0.0)
RECURSIVE MaxFrom(_, _, _)
MaxFrom(m, i, best) ==
    IF i >= SPEC_PIXELS THEN best
    ELSE MaxFrom(m, i + 1, IF FracLess(best, m[i]) THEN m[i] ELSE best)
maxVal(m) == MaxFrom(m, 0, FracZero)

(* ------------------------------------------------------------------ *)
(* startSpecTimer / stopSpecTimer                                       *)
(* ------------------------------------------------------------------ *)
\* delayTimeTicks = uSecToTicks(extTrgMeasDelay) & ~1
DelayTimeTicks(extTrgMeasDelay) ==
    uSecToTicks(extTrgMeasDelay) - (uSecToTicks(extTrgMeasDelay) % 2)

UseExtTrigger(extTrgMeasDelay, doExtTriggering, pinTRG) ==
    doExtTriggering /\ pinTRG # NO_PIN /\ extTrgMeasDelay > 0

\* a faulty variant: the fallback taken below two readout passes plus the
\* hold duration
LeadTicksBelowHold(extTrgMeasDelay, doExtTriggering, pinTRG) ==
    IF UseExtTrigger(extTrgMeasDelay, doExtTriggering, pinTRG)
       /\ DelayTimeTicks(extTrgMeasDelay) >= EXT_TRG_HIGH_TICKS + READ_TICKS + READ_TICKS
    THEN DelayTimeTicks(extTrgMeasDelay) - READ_TICKS - READ_TICKS
    ELSE DEF_LEAD_TICKS

LeadTicksFor(extTrgMeasDelay, doExtTriggering, pinTRG) ==
    IF UseExtTrigger(extTrgMeasDelay, doExtTriggering, pinTRG)
       /\ DelayTimeTicks(extTrgMeasDelay) > DEF_LEAD_TICKS + READ_TICKS + READ_TICKS
    THEN DelayTimeTicks(extTrgMeasDelay) - READ_TICKS - READ_TICKS
    ELSE DEF_LEAD_TICKS

ExtTrgCounterFor(extTrgMeasDelay, doExtTriggering, pinTRG) ==
    IF UseExtTrigger(extTrgMeasDelay, doExtTriggering, pinTRG)
    THEN EXT_TRG_HIGH_TICKS + LeadTicksFor(extTrgMeasDelay, doExtTriggering, pinTRG)
         + READ_TICKS + READ_TICKS - DelayTimeTicks(extTrgMeasDelay)
    ELSE 0

\* the variables startSpecTimer may write
startVars == <<timerOn, specCounter, LEAD_TICKS, extTRGCounter, specState,
               specDataReady, specST, specCLK, pins, trgPending, trgEnabled>>

\* a faulty variant: startSpecTimer without its timerOn test
StartGuardOff == FALSE

\* the "set in timer guard"
StartGuard == timerOn

\* pinTRG, pinLIGHT: the values of extPinTRG, extPinLIGHT when it is called
startSpecTimer(extTrgMeasDelay, doExtTriggering, pinTRG, pinLIGHT) ==
    IF StartGuard
    THEN UNCHANGED startVars
    ELSE /\ timerOn' = TRUE
         /\ specCounter' = 0
         /\ LEAD_TICKS' = LeadTicksFor(extTrgMeasDelay, doExtTriggering, pinTRG)
         /\ extTRGCounter' = ExtTrgCounterFor(extTrgMeasDelay, doExtTriggering, pinTRG)
         /\ specState' = "LEAD"
         /\ specDataReady' = FALSE
         /\ specST' = HIGH
         /\ specCLK' = CLK_HIGH
         /\ pins' = pinWrite(pinWrite(pinWrite(pinWrite(pins,
                        "CLK", LOW), "ST", HIGH), pinTRG, LOW), pinLIGHT, LOW)
         /\ trgPending' = FALSE
         /\ trgEnabled' = TRUE

\* a faulty variant: stopSpecTimer leaving the start line as it is
StopPinsStartKept == pinWrite(pinWrite(pinWrite(pins,
                         "CLK", LOW), extPinTRG, LOW), extPinLIGHT, LOW)

\* stopSpecTimer: pins and the TRG line interrupt, then timerOn
StopPins == pinWrite(pinWrite(pinWrite(pinWrite(pins,
                "CLK", LOW), "ST", LOW), extPinTRG, LOW), extPinLIGHT, LOW)

(* ------------------------------------------------------------------ *)
(* History variables                                                    *)
(* ------------------------------------------------------------------ *)
HistInit ==
    /\ tickNo = 0
    /\ ticksIn = [s \in StateSet |-> 0]
    /\ readyCount = 0
    /\ lastReadyTick = 0
    /\ readyGap = 0
    /\ advances = 0
    /\ misplaced = FALSE
    /\ oobWrite = FALSE

HistReset ==
    /\ tickNo' = 0
    /\ ticksIn' = [s \in StateSet |-> 0]
    /\ readyCount' = 0
    /\ lastReadyTick' = 0
    /\ readyGap' = 0
    /\ advances' = 0
    /\ misplaced' = FALSE
    /\ oobWrite' = FALSE

(* ------------------------------------------------------------------ *)
(* readSpectrometer                                                     *)
(* ------------------------------------------------------------------ *)
\* setIntTime(timeUs, false) as called from readSpectrometer
SetIntTime(timeUs) == IF timerOn THEN INTEG_TICKS ELSE SetIntTimeTicks(timeUs)

readVars == <<specData, specDataCounter, data, dataCounts, extPinTRG, extPinLIGHT>>

\* what a call of readSpectrometer may write before it waits
enterVars == <<INTEG_TICKS, readVars, startVars, histVars>>

\* a faulty variant: readSpectrometer without its timerOn test
ReadGuardOff == FALSE

\* "no action if timer is on"
ReadGuard == timerOn

\* readSpectrometer up to its busy-wait loop; integNow is the value INTEG_TICKS
\* holds when it is called
readSpectrometerEnter(timeUs, doExtTriggering, doLightTriggering, integNow) ==
    IF ReadGuard
    THEN /\ INTEG_TICKS' = integNow
         /\ UNCHANGED <<readVars, startVars, histVars>>
    ELSE /\ INTEG_TICKS' = IF timeUs > 0 THEN SetIntTime(timeUs) ELSE integNow
         /\ specData' = 0
         /\ specDataCounter' = 0
         /\ data' = ZeroInts
         /\ dataCounts' = ZeroInts
         /\ extPinTRG' = IF doExtTriggering THEN "TRG" ELSE extPinTRG
         /\ extPinLIGHT' = IF doLightTriggering THEN "LIGHT" ELSE extPinLIGHT
         /\ startSpecTimer(extTrgMeasDelayUs_, doExtTriggering,
                           extPinTRG', extPinLIGHT')
         /\ IF timerOn THEN UNCHANGED histVars ELSE HistReset

\* the calling thread runs only while no sampling interrupt is active or pending
ThreadRuns == isr.pc = "idle" /\ ~(trgPending /\ trgEnabled)

\* a faulty variant: the loop waiting for a state the machine leaves for good
WaitForLead == specState = "LEAD"

\* while (specState != SPEC_STOP) ;
WaitOver == specState = "STOP"

\* what readSpectrometer writes after its loop
returnVars == <<pins, trgPending, trgEnabled, timerOn, INTEG_TICKS, extPinTRG,
                extPinLIGHT, histVars>>

\* a faulty variant: the integration time of the call left in effect
readSpectrometerReturnKept(timeUs, savedIntegration) ==
    /\ pins' = StopPins
    /\ trgPending' = FALSE
    /\ trgEnabled' = FALSE
    /\ timerOn' = FALSE
    /\ INTEG_TICKS' = INTEG_TICKS
    /\ extPinTRG' = NO_PIN
    /\ extPinLIGHT' = NO_PIN
    /\ HistReset

\* readSpectrometer after its loop: stopSpecTimer, the integration time put
\* back if it was overridden, the trigger pins forgotten
readSpectrometerReturn(timeUs, savedIntegration) ==
    /\ pins' = StopPins
    /\ trgPending' = FALSE
    /\ trgEnabled' = FALSE
    /\ timerOn' = FALSE
    /\ INTEG_TICKS' = IF timeUs > 0 THEN savedIntegration ELSE INTEG_TICKS
    /\ extPinTRG' = NO_PIN
    /\ extPinLIGHT' = NO_PIN
    /\ HistReset

\* the frame of the call the thread is in: its position and its locals
NoCall == [op |-> "none", pc |-> "none", phase |-> "none", timeUs |-> 0,
           saved |-> 0, autoType |-> "none", doExt |-> FALSE,
           satVoltage |-> FracZero, satVoltageLower |-> FracZero,
           maxMeasuredVoltage |-> FracZero, intTicksStep |-> 0, iter |-> 0,
           savedGain |-> "NO_GAIN", savedAdcRef |-> ADC_2_5V,
           hgSatVoltage |-> FracZero, found |-> <<>>]

\* the frame of a call waiting in readSpectrometer
Waiting(op, timeUs) ==
    [NoCall EXCEPT !.op = op, !.pc = "wait", !.timeUs = timeUs,
                   !.saved = INTEG_TICKS]

(* ------------------------------------------------------------------ *)
(* takeMeasurement, takeBlackMeasurement                                *)
(* ------------------------------------------------------------------ *)
\* a faulty variant: the measurement calls without their test
BusyOff == FALSE

\* "no action if timer is on or in measurement"
Busy == timerOn \/ measuringData_

\* takeMeasurement up to the busy-wait loop of readSpectrometer
takeMeasurementEnter(timeUs, doExtTriggering) ==
    IF Busy
    THEN UNCHANGED <<measuringData_, enterVars>>
    ELSE /\ measuringData_' = TRUE
         /\ readSpectrometerEnter(timeUs, doExtTriggering, doExtTriggering,
                                  INTEG_TICKS)

\* takeBlackMeasurement up to the busy-wait loop of readSpectrometer
takeBlackMeasurementEnter(timeUs) ==
    IF Busy
    THEN UNCHANGED <<measuringData_, enterVars>>
    ELSE /\ measuringData_' = TRUE
         /\ readSpectrometerEnter(timeUs, FALSE, FALSE, INTEG_TICKS)

\* the calling thread calls takeMeasurement
TakeMeasurement(timeUs, doExtTriggering) ==
    /\ call.op = "none" /\ ThreadRuns
    /\ takeMeasurementEnter(timeUs, doExtTriggering)
    /\ call' = IF Busy THEN call ELSE Waiting("takeMeasurement", timeUs)
    /\ lastOp' = "takeMeasurement"
    /\ UNCHANGED <<buildVars, isr, cfgVars, resVars, eeprom, adcCode>>

\* the loop ends: the rest of readSpectrometer, then
\* processMeasurement(data_, measurementType_) and measuringData_ = false
TakeMeasurementReturn ==
    /\ call.op = "takeMeasurement" /\ ThreadRuns /\ WaitOver
    /\ readSpectrometerReturn(call.timeUs, call.saved)
    /\ data_' = processMeasurement(data, dataCounts, measurementType_)
    /\ measuringData_' = FALSE
    /\ call' = NoCall
    /\ lastOp' = "measured"
    /\ UNCHANGED <<buildVars, specState, specDataReady, specCLK, specST,
                   specCounter, extTRGCounter, specData, specDataCounter,
                   LEAD_TICKS, accVars, isr, cfgVars, blackLevels_, eeprom,
                   envVars>>

\* the calling thread calls takeBlackMeasurement
TakeBlackMeasurement(timeUs) ==
    /\ call.op = "none" /\ ThreadRuns
    /\ takeBlackMeasurementEnter(timeUs)
    /\ call' = IF Busy THEN call ELSE Waiting("takeBlackMeasurement", timeUs)
    /\ lastOp' = "takeBlackMeasurement"
    /\ UNCHANGED <<buildVars, isr, cfgVars, resVars, eeprom, adcCode>>

\* the loop ends: the rest of readSpectrometer, then
\* processMeasurement(blackLevels_, measurementType_) and measuringData_ = false
TakeBlackMeasurementReturn ==
    /\ call.op = "takeBlackMeasurement" /\ ThreadRuns /\ WaitOver
    /\ readSpectrometerReturn(call.timeUs, call.saved)
    /\ blackLevels_' = processMeasurement(data, dataCounts, measurementType_)
    /\ measuringData_' = FALSE
    /\ call' = NoCall
    /\ lastOp' = "measuredBlack"
    /\ UNCHANGED <<buildVars, specState, specDataReady, specCLK, specST,
                   specCounter, extTRGCounter, specData, specDataCounter,
                   LEAD_TICKS, accVars, isr, cfgVars, data_, eeprom, envVars>>

(* ------------------------------------------------------------------ *)
(* takeAutoMeasurement: the steps between its waits                     *)
(* ------------------------------------------------------------------ *)
AutoTypes == {"AUTO_FOR_SET_REF", "AUTO_ALL_MIN_INTEG", "AUTO_ALL_MAX_RANGE"}

\* a voltage in millivolts as a fraction of volts
Volts(mV) == Frac(mV, 1000)

\* a faulty variant: the reference strictly above v
RefForExceeding(v) ==
    IF ~FracLess(v, Volts(adcVoltages[ADC_3V])) THEN ADC_4_096V
    ELSE IF ~FracLess(v, Volts(adcVoltages[ADC_2_5V])) THEN ADC_3V
    ELSE ADC_2_5V

\* the reference chosen for a voltage v: above 3 V, above 2.5 V, else
RefFor(v) ==
    IF FracLess(Volts(adcVoltages[ADC_3V]), v) THEN ADC_4_096V
    ELSE IF FracLess(Volts(adcVoltages[ADC_2_5V]), v) THEN ADC_3V
    ELSE ADC_2_5V

\* a faulty variant: the reference selected whatever the type
SelectedRefAlways(autoType, v, ref) == RefFor(v)

\* lines 1036-1044 and 1062-1070: the reference for v unless the type is
\* AUTO_FOR_SET_REF, which keeps the reference ref in effect
SelectedRef(autoType, v, ref) ==
    IF autoType # "AUTO_FOR_SET_REF" THEN RefFor(v) ELSE ref

\* the pins after setGainInternal(g) / setAdcRefInternal(r)
GainPins(ps, g) == pinWrite(ps, "GAIN", GainPin(g))
RefPins(ps, r) == pinWrite(pinWrite(ps, "REF1", RefPin1(r)), "REF2", RefPin2(r))

\* what the configuration steps of takeAutoMeasurement leave alone
autoIdleVars == <<buildVars, machVars, INTEG_TICKS, accVars, irqVars, envVars,
                  histVars>>

\* lines 1022-1047: the guard, the busy flag, the black levels reset, high
\* gain, the reference for its saturation voltage unless the type forbids it
takeAutoMeasurementEnter(autoType) ==
    IF Busy
    THEN UNCHANGED <<measuringData_, blackLevels_, gain_, adcRef_, pins>>
    ELSE /\ measuringData_' = TRUE
         /\ blackLevels_' = ZeroFracs
         /\ gain_' = "HIGH_GAIN"
         /\ adcRef_' = SelectedRef(autoType, Volts(satVoltageHighGain_), adcRef_)
         /\ pins' = RefPins(GainPins(pins, "HIGH_GAIN"), adcRef_')

TakeAutoMeasurement(autoType, doExtTriggering) ==
    /\ call.op = "none" /\ ThreadRuns
    /\ takeAutoMeasurementEnter(autoType)
    /\ call' = IF Busy THEN call
               ELSE [NoCall EXCEPT !.op = "takeAutoMeasurement", !.pc = "delay1",
                                   !.autoType = autoType, !.doExt = doExtTriggering,
                                   !.satVoltage = Volts(satVoltageHighGain_)]
    /\ lastOp' = "takeAutoMeasurement"
    /\ UNCHANGED <<buildVars, timerOn, specState, specDataReady, specCLK, specST,
                   specCounter, extTRGCounter, specData, specDataCounter,
                   LEAD_TICKS, extPinTRG, extPinLIGHT, INTEG_TICKS, accVars,
                   irqVars, measurementType_, extTrgMeasDelayUs_,
                   satVoltageHighGain_, satVoltageNoGain_, calibration_,
                   applyBandPassCorrection_, data_, eeprom, adcCode, histVars>>

\* lines 1050-1051: the shortest reading
AutoFirstRead ==
    /\ call.op = "takeAutoMeasurement" /\ call.pc = "delay1" /\ ThreadRuns
    /\ readSpectrometerEnter(0, FALSE, call.doExt, uSecToTicks(MIN_INTEG_TIME_US))
    /\ call' = [call EXCEPT !.pc = "wait", !.phase = "first"]
    /\ lastOp' = "autoRead"
    /\ UNCHANGED <<buildVars, isr, measuringData_, cfgVars, resVars, eeprom,
                   envVars>>

\* a readSpectrometer call of takeAutoMeasurement returns; all but the one
\* after a rollback are followed by processMeasurement(data_, MEASURE_VOLTAGE)
AutoReadReturn ==
    /\ call.op = "takeAutoMeasurement" /\ call.pc = "wait"
    /\ ThreadRuns /\ WaitOver
    /\ readSpectrometerReturn(0, call.saved)
    /\ data_' = IF call.phase = "rollback" THEN data_
                ELSE processMeasurement(data, dataCounts, "MEASURE_VOLTAGE")
    /\ call' = [call EXCEPT
                  !.maxMeasuredVoltage =
                      IF call.phase = "rollback" THEN @ ELSE maxVal(data_'),
                  !.pc = CASE call.phase = "first" -> "judge"
                           [] call.phase = "second" -> "setup"
                           [] call.phase = "loop" -> "check"
                           [] OTHER -> "finish"]
    /\ lastOp' = "autoReturn"
    /\ UNCHANGED <<buildVars, specState, specDataReady, specCLK, specST,
                   specCounter, extTRGCounter, specData, specDataCounter,
                   LEAD_TICKS, accVars, isr, measuringData_, cfgVars,
                   blackLevels_, eeprom, envVars>>

\* lines 1055-1073: saturated at the shortest reading: no gain, its
\* saturation voltage and the reference for it
AutoJudge ==
    /\ call.op = "takeAutoMeasurement" /\ call.pc = "judge" /\ ThreadRuns
    /\ IF FracLess(Volts(satVoltageHighGain_), call.maxMeasuredVoltage)
       THEN /\ gain_' = "NO_GAIN"
            /\ adcRef_' = SelectedRef(call.autoType, Volts(satVoltageNoGain_),
                                       adcRef_)
            /\ pins' = RefPins(GainPins(pins, "NO_GAIN"), adcRef_')
            /\ call' = [call EXCEPT !.pc = "delay2",
                                    !.satVoltage = Volts(satVoltageNoGain_)]
       ELSE /\ UNCHANGED <<gain_, adcRef_, pins>>
            /\ call' = [call EXCEPT !.pc = "setup"]
    /\ lastOp' = "autoJudge"
    /\ UNCHANGED <<buildVars, timerOn, specState, specDataReady, specCLK, specST,
                   specCounter, extTRGCounter, specData, specDataCounter,
                   LEAD_TICKS, extPinTRG, extPinLIGHT, INTEG_TICKS, accVars,
                   irqVars, measuringData_, measurementType_, extTrgMeasDelayUs_,
                   satVoltageHighGain_, satVoltageNoGain_, calibration_,
                   applyBandPassCorrection_, resVars, eeprom, envVars, histVars>>

\* lines 1076-1077: the shortest reading repeated without gain
AutoSecondRead ==
    /\ call.op = "takeAutoMeasurement" /\ call.pc = "delay2" /\ ThreadRuns
    /\ readSpectrometerEnter(0, FALSE, call.doExt, INTEG_TICKS)
    /\ call' = [call EXCEPT !.pc = "wait", !.phase = "second"]
    /\ lastOp' = "autoRead"
    /\ UNCHANGED <<buildVars, isr, measuringData_, cfgVars, resVars, eeprom,
                   envVars>>

\* a faulty variant: the fraction left unscaled
FracUnscaled(a, n, d) == a

\* a fraction times n/d
FracMul(a, n, d) == Frac(a[1] * n, a[2] * d)

\* a faulty variant: the step scaled by the ticks of the Integration state
\* alone
StepUpOfIntegration(sat, peak, integ) ==
    MulDivQR(sat[1] * peak[2] - peak[1] * sat[2], integ, peak[1] * sat[2])[1]

\* line 1128: ((satVoltage - maxMeasuredVoltage) * (INTEG_TICKS + READ_TICKS))
\* / maxMeasuredVoltage, cut to an integer
StepUp(sat, peak, integ) ==
    MulDivQR(sat[1] * peak[2] - peak[1] * sat[2], integ + READ_TICKS,
             peak[1] * sat[2])[1]

\* lines 1139-1142: the limits of the search
ClampTicks(t) ==
    IF t < uSecToTicks(MIN_INTEG_TIME_US) THEN uSecToTicks(MIN_INTEG_TIME_US)
    ELSE IF t > uSecToTicks(MAX_INTEG_TIME_US) THEN uSecToTicks(MAX_INTEG_TIME_US)
    ELSE t

\* the integration time above which the search calls the keep-alive, in
\* microseconds
KEEP_ALIVE_US == 1000000

\* a faulty variant: the tolerance taken from the target, 0.975 * 0.99
SatVoltageLowerOfTarget(sat) == FracMul(sat, 975 * 99, 1000 * 100)

\* line 1105: satVoltageLower = satVoltage*0.975, of the clipped saturation
\* voltage before line 1108 scales it
SatVoltageLower(sat) == FracMul(sat, 975, 1000)

\* lines 1083-1112: the reference reselected for the minimum-integration type,
\* the saturation voltage clipped to the reference, the tolerance band, the
\* first step, and whether to search at all
AutoSetup ==
    /\ call.op = "takeAutoMeasurement" /\ call.pc = "setup" /\ ThreadRuns
    /\ IF FracLess(call.maxMeasuredVoltage, call.satVoltage)
          /\ call.autoType = "AUTO_ALL_MIN_INTEG"
       THEN /\ adcRef_' = RefFor(call.maxMeasuredVoltage)
            /\ pins' = RefPins(pins, adcRef_')
       ELSE UNCHANGED <<adcRef_, pins>>
    /\ LET clipped == IF FracLess(Volts(adcVoltages[adcRef_']), call.satVoltage)
                      THEN Volts(adcVoltages[adcRef_']) ELSE call.satVoltage
           lower == SatVoltageLower(clipped)
       IN call' = [call EXCEPT
                     !.satVoltageLower = lower,
                     !.satVoltage = FracMul(clipped, 99, 100),
                     !.intTicksStep = INTEG_TICKS,
                     !.pc = IF FracLess(call.maxMeasuredVoltage, lower)
                            THEN "loop" ELSE "finish"]
    /\ lastOp' = "autoSetup"
    /\ UNCHANGED <<buildVars, timerOn, specState, specDataReady, specCLK, specST,
                   specCounter, extTRGCounter, specData, specDataCounter,
                   LEAD_TICKS, extPinTRG, extPinLIGHT, INTEG_TICKS, accVars,
                   irqVars, measuringData_, gain_, measurementType_,
                   extTrgMeasDelayUs_, satVoltageHighGain_, satVoltageNoGain_,
                   calibration_, applyBandPassCorrection_, resVars, eeprom,
                   envVars, histVars>>

\* lines 1117-1122: the watchdog check-in and Particle.process(), which runs
\* whatever calls the application has pending
AutoKeepAlive ==
    /\ call.op = "takeAutoMeasurement" /\ call.pc = "loop" /\ ThreadRuns
    /\ getIntTime > KEEP_ALIVE_US
    /\ call' = [call EXCEPT !.pc = "keepAlive"]
    /\ lastOp' = "keepAlive"
    /\ UNCHANGED <<autoIdleVars, pins, measuringData_, cfgVars, resVars, eeprom>>

\* the iterations of the search followed: on a flat source the search is
\* one path and is followed further
SearchSteps == IF source.kind = "any" THEN MaxSearchSteps ELSE MaxFlatSteps

\* the 32-bit pattern a conversion of an infinite float to uint32_t can
\* leave: 0, or all bits set. The latter is held as the largest integer of
\* the model: the step is only compared and halved until the next step up
\* replaces it
StepSaturated == 2147483647
StepOutcomes(sat, peak, integ) ==
    IF peak[1] = 0 THEN {0, StepSaturated} ELSE {StepUp(sat, peak, integ)}

\* INTEG_TICKS += intTicksStep in 32 bits: all bits set takes one tick off
Advanced(integ, step) == IF step = StepSaturated THEN integ - 1 ELSE integ + step

\* lines 1125-1146: the step up or down, the limits, the new reading. The
\* iterations of a source of any light are followed up to SearchSteps; those
\* of a source that is a function of the integration time are counted up to
\* SearchSteps and followed to the end
AutoStep ==
    /\ call.op = "takeAutoMeasurement" /\ ThreadRuns
    /\ \/ call.pc = "keepAlive"
       \/ call.pc = "loop" /\ getIntTime <= KEEP_ALIVE_US
    /\ source.kind \in {"any", "flat"} => call.iter < SearchSteps
    /\ LET up == FracLess(call.maxMeasuredVoltage, call.satVoltage)
       IN \E step \in IF up
                      THEN StepOutcomes(call.satVoltage, call.maxMeasuredVoltage,
                                        INTEG_TICKS)
                      ELSE {call.intTicksStep \div 2} :
            LET moved == IF up THEN Advanced(INTEG_TICKS, step)
                         ELSE IF INTEG_TICKS < step THEN 0 ELSE INTEG_TICKS - step
            IN /\ readSpectrometerEnter(0, FALSE, call.doExt, ClampTicks(moved))
               /\ call' = [call EXCEPT !.pc = "wait", !.phase = "loop",
                                       !.intTicksStep = step,
                                       !.iter = IF @ < SearchSteps THEN @ + 1 ELSE @]
    /\ lastOp' = "autoStep"
    /\ UNCHANGED <<buildVars, isr, measuringData_, cfgVars, resVars, eeprom,
                   envVars>>

\* lines 1149-1164: the exit conditions
AutoCheck ==
    /\ call.op = "takeAutoMeasurement" /\ call.pc = "check" /\ ThreadRuns
    /\ LET peak == call.maxMeasuredVoltage
           below == FracLess(peak, call.satVoltage)
           above == FracLess(call.satVoltage, peak)
       IN call' = [call EXCEPT !.pc =
              IF ~FracLess(peak, call.satVoltageLower) /\ below THEN "finish"
              ELSE IF INTEG_TICKS = uSecToTicks(MAX_INTEG_TIME_US) /\ below
                   THEN "finish"
              ELSE IF INTEG_TICKS = uSecToTicks(MIN_INTEG_TIME_US) /\ above
                   THEN "finish"
              ELSE IF call.intTicksStep <= 2
                   THEN IF above THEN "rollback" ELSE "finish"
              ELSE "loop"]
    /\ lastOp' = "autoCheck"
    /\ UNCHANGED <<autoIdleVars, pins, measuringData_, cfgVars, resVars, eeprom>>

\* a faulty variant: the last step taken back once
RevertedOnce(ticks, step) == ticks - step

\* line 1161: INTEG_TICKS -= intTicksStep<<1
Reverted(ticks, step) == ticks - 2 * step

\* lines 1161-1162: the last iteration reverted and read once more
AutoRollbackRead ==
    /\ call.op = "takeAutoMeasurement" /\ call.pc = "rollback" /\ ThreadRuns
    /\ readSpectrometerEnter(0, FALSE, call.doExt,
                             Reverted(INTEG_TICKS, call.intTicksStep))
    /\ call' = [call EXCEPT !.pc = "wait", !.phase = "rollback"]
    /\ lastOp' = "autoRollback"
    /\ UNCHANGED <<buildVars, isr, measuringData_, cfgVars, resVars, eeprom,
                   envVars>>

\* lines 1168-1175: the data in the configured measurement type, the busy
\* flag cleared, the result of the search stored
AutoFinish ==
    /\ call.op = "takeAutoMeasurement" /\ call.pc = "finish" /\ ThreadRuns
    /\ data_' = processMeasurement(data, dataCounts, measurementType_)
    /\ measuringData_' = FALSE
    /\ eeprom' = [eeprom EXCEPT
                    !.intTime = INTEG_TICKS,
                    !.gain = gain_,
                    !.adcRef = IF call.autoType # "AUTO_FOR_SET_REF"
                               THEN adcRef_ ELSE @]
    /\ call' = NoCall
    /\ lastOp' = "autoMeasured"
    /\ UNCHANGED <<autoIdleVars, pins, cfgVars, blackLevels_>>

(* ------------------------------------------------------------------ *)
(* Calls made while another call is in progress: from a second thread,  *)
(* or from the application's handlers run by the keep-alive             *)
(* ------------------------------------------------------------------ *)
SecondThreadRuns == call.op # "none" /\ ThreadRuns

\* takeMeasurement; past its guard it finds readSpectrometer returning at
\* once if a cycle is running, and otherwise starts one and waits
SecondTakeMeasurement(timeUs, doExtTriggering) ==
    /\ SecondThreadRuns
    /\ IF Busy
       THEN UNCHANGED <<measuringData_, enterVars, data_>>
       ELSE /\ readSpectrometerEnter(timeUs, doExtTriggering, doExtTriggering,
                                     INTEG_TICKS)
            /\ data_' = IF timerOn
                        THEN processMeasurement(data', dataCounts', measurementType_)
                        ELSE data_
            /\ measuringData_' = ~timerOn
    /\ lastOp' = "takeMeasurement.2"
    /\ UNCHANGED <<buildVars, isr, cfgVars, blackLevels_, eeprom, call, adcCode>>

\* takeBlackMeasurement, likewise
SecondTakeBlackMeasurement(timeUs) ==
    /\ SecondThreadRuns
    /\ IF Busy
       THEN UNCHANGED <<measuringData_, enterVars, blackLevels_>>
       ELSE /\ readSpectrometerEnter(timeUs, FALSE, FALSE, INTEG_TICKS)
            /\ blackLevels_' =
                  IF timerOn
                  THEN processMeasurement(data', dataCounts', measurementType_)
                  ELSE blackLevels_
            /\ measuringData_' = ~timerOn
    /\ lastOp' = "takeBlackMeasurement.2"
    /\ UNCHANGED <<buildVars, isr, cfgVars, data_, eeprom, call, adcCode>>

\* takeAutoMeasurement; past its guard it goes on to its first delay
SecondTakeAutoMeasurement(autoType) ==
    /\ SecondThreadRuns
    /\ takeAutoMeasurementEnter(autoType)
    /\ lastOp' = "takeAutoMeasurement.2"
    /\ UNCHANGED <<buildVars, timerOn, specState, specDataReady, specCLK, specST,
                   specCounter, extTRGCounter, specData, specDataCounter,
                   LEAD_TICKS, extPinTRG, extPinLIGHT, INTEG_TICKS, accVars,
                   irqVars, measurementType_, extTrgMeasDelayUs_,
                   satVoltageHighGain_, satVoltageNoGain_, calibration_,
                   applyBandPassCorrection_, data_, eeprom, call, adcCode,
                   histVars>>

SecondReadSpectrometer(timeUs, doExtTriggering, doLightTriggering) ==
    /\ SecondThreadRuns
    /\ readSpectrometerEnter(timeUs, doExtTriggering, doLightTriggering,
                             INTEG_TICKS)
    /\ lastOp' = "readSpectrometer.2"
    /\ UNCHANGED <<buildVars, isr, measuringData_, cfgVars, resVars, eeprom,
                   call, adcCode>>

SecondStartSpecTimer(extTrgMeasDelay, doExtTriggering) ==
    /\ SecondThreadRuns
    /\ startSpecTimer(extTrgMeasDelay, doExtTriggering, extPinTRG, extPinLIGHT)
    /\ lastOp' = "startSpecTimer.2"
    /\ UNCHANGED <<buildVars, INTEG_TICKS, readVars, isr, measuringData_,
                   cfgVars, resVars, eeprom, call, adcCode, histVars>>

(* ------------------------------------------------------------------ *)
(* Configuration setters                                                *)
(* ------------------------------------------------------------------ *)
\* what no setter writes
setterIdleVars == <<buildVars, machVars, accVars, irqVars, measuringData_,
                    data_, call, adcCode, histVars>>

\* a setter is called from thread level
SetterRuns == ThreadRuns

\* setGain
SetGain(gain, storeInEeprom) ==
    /\ SetterRuns
    /\ IF timerOn \/ measuringData_
       THEN UNCHANGED <<gain_, pins, eeprom>>
       ELSE /\ gain_' = gain
            /\ pins' = GainPins(pins, gain)
            /\ eeprom' = IF storeInEeprom THEN [eeprom EXCEPT !.gain = gain]
                         ELSE eeprom
    /\ lastOp' = "setGain"
    /\ UNCHANGED <<setterIdleVars, INTEG_TICKS, adcRef_, measurementType_,
                   extTrgMeasDelayUs_, satVoltageHighGain_, satVoltageNoGain_,
                   calibration_, applyBandPassCorrection_, blackLevels_>>

\* setAdcReference
SetAdcReference(adcRef, storeInEeprom) ==
    /\ SetterRuns
    /\ IF timerOn \/ measuringData_
       THEN UNCHANGED <<adcRef_, pins, eeprom>>
       ELSE /\ adcRef_' = adcRef
            /\ pins' = RefPins(pins, adcRef)
            /\ eeprom' = IF storeInEeprom THEN [eeprom EXCEPT !.adcRef = adcRef]
                         ELSE eeprom
    /\ lastOp' = "setAdcReference"
    /\ UNCHANGED <<setterIdleVars, INTEG_TICKS, gain_, measurementType_,
                   extTrgMeasDelayUs_, satVoltageHighGain_, satVoltageNoGain_,
                   calibration_, applyBandPassCorrection_, blackLevels_>>

\* setMeasurementType: a change of type resets the black levels
SetMeasurementType(measurementType, storeInEeprom) ==
    /\ SetterRuns
    /\ IF timerOn \/ measuringData_
       THEN UNCHANGED <<measurementType_, blackLevels_, eeprom>>
       ELSE /\ blackLevels_' = IF measurementType_ # measurementType
                               THEN ZeroFracs ELSE blackLevels_
            /\ measurementType_' = measurementType
            /\ eeprom' = IF storeInEeprom
                         THEN [eeprom EXCEPT !.measureType = measurementType]
                         ELSE eeprom
    /\ lastOp' = "setMeasurementType"
    /\ UNCHANGED <<setterIdleVars, INTEG_TICKS, pins, gain_, adcRef_,
                   extTrgMeasDelayUs_, satVoltageHighGain_, satVoltageNoGain_,
                   calibration_, applyBandPassCorrection_>>

\* setIntTime(timeUs, storeInEeprom) as the application calls it
SetIntegrationTime(timeUs, storeInEeprom) ==
    /\ SetterRuns
    /\ IF timerOn
       THEN UNCHANGED <<INTEG_TICKS, eeprom>>
       ELSE /\ INTEG_TICKS' = SetIntTimeTicks(timeUs)
            /\ eeprom' = IF storeInEeprom
                         THEN [eeprom EXCEPT !.intTime = INTEG_TICKS']
                         ELSE eeprom
    /\ lastOp' = "setIntTime"
    /\ UNCHANGED <<setterIdleVars, pins, cfgVars, blackLevels_>>

\* the delay setExtTrgMeasDelay arrives at for a request that is not negative:
\* at least the hold time of the trigger, on an even tick
TrgDelayFor(extTrgMeasDelayUs) ==
    LET asked == uSecToTicks(extTrgMeasDelayUs)
        held == IF asked < EXT_TRG_HIGH_TICKS THEN EXT_TRG_HIGH_TICKS ELSE asked
    IN ticksToUsec(held - (held % 2))

\* setExtTrgMeasDelay
SetExtTrgMeasDelay(extTrgMeasDelayUs, storeInEeprom) ==
    /\ SetterRuns
    /\ IF timerOn
       THEN UNCHANGED <<extTrgMeasDelayUs_, eeprom>>
       ELSE /\ extTrgMeasDelayUs_' = IF extTrgMeasDelayUs < 0 THEN 0
                                     ELSE TrgDelayFor(extTrgMeasDelayUs)
            /\ eeprom' = IF storeInEeprom
                         THEN [eeprom EXCEPT !.trgMeasDelay = extTrgMeasDelayUs_']
                         ELSE eeprom
    /\ lastOp' = "setExtTrgMeasDelay"
    /\ UNCHANGED <<setterIdleVars, INTEG_TICKS, pins, gain_, adcRef_,
                   measurementType_, satVoltageHighGain_, satVoltageNoGain_,
                   calibration_, applyBandPassCorrection_, blackLevels_>>

\* the value setSaturationVoltages keeps for an argument v (millivolts): v
\* within the limits of the sensor, else the lower limit
\* SatWithin resetting to the nearest limit instead of the lower one
SatWithinNearest(v, lowest, highest) ==
    IF v < lowest THEN lowest ELSE IF v > highest THEN highest ELSE v

SatWithin(v, lowest, highest) == IF v >= lowest /\ v <= highest THEN v ELSE lowest

\* setSaturationVoltages: an argument that is not positive is skipped
SetSaturationVoltages(satVoltageHighGain, satVoltageNoGain, storeInEeprom) ==
    /\ SetterRuns
    /\ satVoltageHighGain_' =
          IF satVoltageHighGain > 0
          THEN SatWithin(satVoltageHighGain, MIN_SAT_VOLTAGE_HIGH_GAIN,
                         MAX_SAT_VOLTAGE_HIGH_GAIN)
          ELSE satVoltageHighGain_
    /\ satVoltageNoGain_' =
          IF satVoltageNoGain > 0
          THEN SatWithin(satVoltageNoGain, MIN_SAT_VOLTAGE_NO_GAIN,
                         MAX_SAT_VOLTAGE_NO_GAIN)
          ELSE satVoltageNoGain_
    /\ eeprom' = [eeprom EXCEPT
                    !.satHigh = IF storeInEeprom /\ satVoltageHighGain > 0
                                THEN satVoltageHighGain_' ELSE @,
                    !.satNo = IF storeInEeprom /\ satVoltageNoGain > 0
                              THEN satVoltageNoGain_' ELSE @]
    /\ lastOp' = "setSaturationVoltages"
    /\ UNCHANGED <<setterIdleVars, INTEG_TICKS, pins, gain_, adcRef_,
                   measurementType_, extTrgMeasDelayUs_, calibration_,
                   applyBandPassCorrection_, blackLevels_>>

\* a null pointer passed for the coefficients
NoCalibration == <<>>

\* setWavelengthCalibration
SetWavelengthCalibration(wavelengthCal, storeInEeprom) ==
    /\ SetterRuns
    /\ IF wavelengthCal = NoCalibration
       THEN UNCHANGED <<calibration_, eeprom>>
       ELSE /\ calibration_' = wavelengthCal
            /\ eeprom' = IF storeInEeprom
                         THEN [eeprom EXCEPT !.calib = wavelengthCal]
                         ELSE eeprom
    /\ lastOp' = "setWavelengthCalibration"
    /\ UNCHANGED <<setterIdleVars, INTEG_TICKS, pins, gain_, adcRef_,
                   measurementType_, extTrgMeasDelayUs_, satVoltageHighGain_,
                   satVoltageNoGain_, applyBandPassCorrection_, blackLevels_>>

(* ------------------------------------------------------------------ *)
(* Constructor and begin()                                              *)
(* ------------------------------------------------------------------ *)
\* an erased EEPROM cell (0xFFFFFFFF: no valid enum, time or voltage)
ERASED == -1
ZeroCalibration == <<0, 0, 0, 0, 0, 0>>
DefaultCalibration == <<310, 3, 0, 0, 0, 0>>
ErasedImage ==
    [measureType |-> "ERASED", gain |-> "ERASED", adcRef |-> ERASED,
     trgMeasDelay |-> ERASED, intTime |-> ERASED, satHigh |-> ERASED,
     satNo |-> ERASED, calib |-> <<ERASED, 0, 0, 0, 0, 0>>]

\* an image holding a configuration saved earlier
SavedImage(delayUs, intTicks) ==
    [measureType |-> "MEASURE_VOLTAGE", gain |-> "HIGH_GAIN", adcRef |-> ADC_4_096V,
     trgMeasDelay |-> delayUs, intTime |-> intTicks, satHigh |-> 2500,
     satNo |-> 1500, calib |-> <<320, 2, 0, 0, 0, 0>>]

\* the 100 _mSEC default of the constructor, in microseconds
DEFAULT_INTEG_TIME_US == 100000
\* upper limit of a stored trigger delay, in microseconds
MAX_TRG_MEAS_DELAY_US == 10000000

ValidTrgDelay(d) ==
    d = 0 \/ (d >= ticksToUsec(EXT_TRG_HIGH_TICKS) /\ d < MAX_TRG_MEAS_DELAY_US)
ValidIntTicks(t) ==
    /\ ticksToUsec(t) >= MIN_INTEG_TIME_US
    /\ ticksToUsec(t) <= MAX_INTEG_TIME_US

\* the members after C12666MA::C12666MA read image e; uninit is what the
\* never-assigned extTrgMeasDelayUs_ holds when the stored delay is rejected
Constructed(e, uninit) ==
    [measurementType |-> IF e.measureType \in MeasureTypes THEN e.measureType
                         ELSE "MEASURE_RELATIVE",
     gain |-> IF e.gain \in Gains THEN e.gain ELSE "NO_GAIN",
     adcRef |-> IF e.adcRef \in AdcRefs THEN e.adcRef ELSE ADC_5V,
     extTrgMeasDelayUs |-> IF ValidTrgDelay(e.trgMeasDelay) THEN e.trgMeasDelay
                           ELSE uninit,
     integTicks |-> IF ValidIntTicks(e.intTime) THEN e.intTime
                    ELSE SetIntTimeTicks(DEFAULT_INTEG_TIME_US),
     satHigh |-> IF e.satHigh >= MIN_SAT_VOLTAGE_HIGH_GAIN
                    /\ e.satHigh <= MAX_SAT_VOLTAGE_HIGH_GAIN
                 THEN e.satHigh ELSE MIN_SAT_VOLTAGE_HIGH_GAIN,
     satNo |-> IF e.satNo >= MIN_SAT_VOLTAGE_NO_GAIN
                  /\ e.satNo <= MAX_SAT_VOLTAGE_NO_GAIN
               THEN e.satNo ELSE MIN_SAT_VOLTAGE_NO_GAIN,
     calibration |-> IF e.calib[1] > 100 /\ e.calib[1] < 500 THEN e.calib
                     ELSE DefaultCalibration]

\* the statics and members the constructor and begin() leave, apart from the
\* waveform table, for build (N, T, avg4)
MembersInit(N, T, avg4, e, uninit) ==
    /\ SPEC_PIXELS = N
    /\ TICKS_PER_PIXEL = T
    /\ ADC_AVG_4 = avg4
    /\ timerOn = FALSE
    /\ specState = "STOP"
    /\ specDataReady = FALSE
    /\ specCLK = LOW
    /\ specST = LOW
    /\ specCounter = 0
    /\ extTRGCounter = 0
    /\ specData = NULL
    /\ specDataCounter = NULL
    /\ LEAD_TICKS = DEF_LEAD_TICKS
    /\ INTEG_TICKS = Constructed(e, uninit).integTicks
    /\ extPinTRG = NO_PIN
    /\ extPinLIGHT = NO_PIN
    /\ data = [i \in 0..(N - 1) |-> 0]
    /\ dataCounts = [i \in 0..(N - 1) |-> 0]
    /\ pins = [p \in PinNames |->
                 CASE p = "GAIN" -> GainPin(Constructed(e, uninit).gain)
                   [] p = "REF1" -> RefPin1(Constructed(e, uninit).adcRef)
                   [] p = "REF2" -> RefPin2(Constructed(e, uninit).adcRef)
                   [] OTHER -> LOW]
    /\ trgPending = FALSE
    /\ trgEnabled = FALSE
    /\ isr = IsrIdle
    /\ measuringData_ = FALSE
    /\ gain_ = Constructed(e, uninit).gain
    /\ adcRef_ = Constructed(e, uninit).adcRef
    /\ measurementType_ = Constructed(e, uninit).measurementType
    /\ extTrgMeasDelayUs_ = Constructed(e, uninit).extTrgMeasDelayUs
    /\ satVoltageHighGain_ = Constructed(e, uninit).satHigh
    /\ satVoltageNoGain_ = Constructed(e, uninit).satNo
    /\ calibration_ = Constructed(e, uninit).calibration
    /\ applyBandPassCorrection_ = TRUE
    /\ data_ = [i \in 0..(N - 1) |-> FracZero]
    /\ blackLevels_ = [i \in 0..(N - 1) |-> FracZero]
    /\ eeprom = e
    /\ call = NoCall
    /\ HistInit

\* nothing returned yet; the host has not calculated a colour
NoReturn == [op |-> "none"]
NoColour == [xyz |-> <<FracZero, FracZero, FracZero>>, CCT |-> "unset",
             x |-> "unset", y |-> "unset"]
\* light whose level in one acquisition says nothing about the next
AnyLight == [kind |-> "any", high |-> 0, no |-> 0]
HostInit == ret = NoReturn /\ colour = NoColour /\ source = AnyLight

\* the device after the constructor and begin()
DeviceInit(N, T, avg4, e, uninit) ==
    /\ MembersInit(N, T, avg4, e, uninit)
    /\ specRead = initSpecTimerData(N, T)
    /\ lastOp = "begin"

(* ------------------------------------------------------------------ *)
(* Spec: one readout cycle after another, tick by tick                  *)
(* ------------------------------------------------------------------ *)
\* ADC codes the sensor yields in a behaviour (full scale)
AdcCodes == {ADC_MAX_VALUE}
\* requests made: <<integration time in microseconds (0: use the configured
\* one), external and light triggering>>
Requests == {<<0, FALSE>>, <<1200, TRUE>>}
\* starts requested directly: <<trigger delay in microseconds, triggering>>
StartRequests == {<<0, FALSE>>, <<1000, TRUE>>}
\* EEPROM images found at construction
CycleImages == {SavedImage(1000, 200)}

Init ==
    /\ adcCode \in AdcCodes
    /\ apiCalls = 0
    /\ HostInit
    /\ \E N \in 1..MaxPixels, avg4 \in BOOLEAN, e \in CycleImages :
           DeviceInit(N, SENSOR_TICKS_PER_PIXEL, avg4, e, 0)

Tick == spectroClockInterrupt
Sample == spectroTRGInterrupt
Measure == UNCHANGED <<apiCalls, source, hostVars>> /\ \E r \in Requests : TakeMeasurement(r[1], r[2])
Return == TakeMeasurementReturn
Reenter ==
    /\ UNCHANGED <<apiCalls, source, hostVars>>
    /\ \/ \E r \in Requests : SecondTakeMeasurement(r[1], r[2])
       \/ \E r \in Requests : SecondReadSpectrometer(r[1], r[2], r[2])
       \/ \E r \in StartRequests : SecondStartSpecTimer(r[1], r[2])

Next == Tick \/ Sample \/ Measure \/ Return

Spec == Init /\ [][Next]_vars

\* the interrupts are delivered and served, and the waiting thread is scheduled
FairSpec == Spec /\ WF_vars(Tick) /\ WF_vars(Sample) /\ WF_vars(Return)

\* the same cycles with a second thread calling in while the first one waits
NextReentry == Tick \/ Sample \/ Measure \/ Return \/ Reenter

SpecReentry == Init /\ [][NextReentry]_vars

(* ------------------------------------------------------------------ *)
(* ApiSpec: the calls of the application, one readout cycle per step    *)
(* ------------------------------------------------------------------ *)
\* ADC codes the sensor yields in a cycle: dim (1/257 of full scale), just
\* under the tolerance band of a saturation voltage that fills the reference
\* (248/255 of full scale), and full scale
ApiCodes == {255, 63736, ADC_MAX_VALUE}
\* integration time overrides of takeBlackMeasurement, in microseconds
BlackRequests == {0, 1200}
\* auto measurements asked for: <<type, external light triggering>>
AutoRequests == {<<"AUTO_FOR_SET_REF", FALSE>>, <<"AUTO_ALL_MIN_INTEG", TRUE>>,
                 <<"AUTO_ALL_MAX_RANGE", FALSE>>}
\* arguments of the setter calls made: <<value(s), storeInEeprom>>
GainRequests == {<<"NO_GAIN", TRUE>>}
AdcRefRequests == {<<ADC_3V, TRUE>>}
TypeRequests == {<<"MEASURE_ABSOLUTE", TRUE>>}
IntTimeRequests == {<<5000, TRUE>>}
TrgDelayRequests == {<<2000, TRUE>>, <<-1, FALSE>>}
SatRequests == {<<2600, 1600, TRUE>>, <<5000, 0, FALSE>>}
CalRequests == {<<<<305, 3, 0, 0, 0, 0>>, TRUE>>, <<NoCalibration, FALSE>>}

\* one readout cycle from its start to Stop: the ticks of
\* spectroClockInterrupt and, for every pixel, a sampling burst that
\* completes before the next tick, with the sensor yielding one code
AcquireFrom(codes) ==
    /\ call.pc = "wait" /\ timerOn /\ specState = "LEAD" /\ ThreadRuns
    /\ adcCode' \in codes
    /\ data' = [i \in Pixels |-> NumReads * adcCode']
    /\ dataCounts' = [i \in Pixels |-> NumReads]
    /\ specState' = "STOP"
    /\ specDataReady' = FALSE
    /\ specCLK' = LOW
    /\ specST' = LOW
    /\ specCounter' = 0
    /\ extTRGCounter' = 0
    /\ specData' = NULL
    /\ specDataCounter' = NULL
    /\ pins' = StopPins
    /\ trgPending' = FALSE
    /\ lastOp' = "cycle"
    /\ UNCHANGED <<buildVars, timerOn, LEAD_TICKS, extPinTRG, extPinLIGHT,
                   INTEG_TICKS, trgEnabled, isr, measuringData_, cfgVars,
                   resVars, eeprom, call, apiCalls, source, hostVars, histVars>>

Acquire == AcquireFrom(ApiCodes)

\* a call of the application, counted
ApiCalled ==
    /\ apiCalls < MaxApiCalls
    /\ apiCalls' = apiCalls + 1
    /\ UNCHANGED <<source, hostVars>>

ApiMeasure ==
    \/ ApiCalled /\ \E r \in Requests : TakeMeasurement(r[1], r[2])
    \/ ApiCalled /\ \E t \in BlackRequests : TakeBlackMeasurement(t)
    \/ ApiCalled /\ \E r \in AutoRequests : TakeAutoMeasurement(r[1], r[2])
ReturnBlack == TakeBlackMeasurementReturn
AutoProceed ==
    \/ AutoFirstRead \/ AutoReadReturn \/ AutoJudge \/ AutoSecondRead
    \/ AutoSetup \/ AutoKeepAlive \/ AutoStep \/ AutoCheck
    \/ AutoRollbackRead \/ AutoFinish
Recall ==
    \/ ApiCalled /\ \E r \in Requests : SecondTakeMeasurement(r[1], r[2])
    \/ ApiCalled /\ \E t \in BlackRequests : SecondTakeBlackMeasurement(t)
    \/ ApiCalled /\ \E r \in AutoRequests : SecondTakeAutoMeasurement(r[1])
Configure ==
    \/ ApiCalled /\ \E r \in GainRequests : SetGain(r[1], r[2])
    \/ ApiCalled /\ \E r \in AdcRefRequests : SetAdcReference(r[1], r[2])
    \/ ApiCalled /\ \E r \in TypeRequests : SetMeasurementType(r[1], r[2])
    \/ ApiCalled /\ \E r \in IntTimeRequests : SetIntegrationTime(r[1], r[2])
    \/ ApiCalled /\ \E r \in TrgDelayRequests : SetExtTrgMeasDelay(r[1], r[2])
    \/ ApiCalled /\ \E r \in SatRequests : SetSaturationVoltages(r[1], r[2], r[3])
    \/ ApiCalled /\ \E r \in CalRequests : SetWavelengthCalibration(r[1], r[2])

NextApi ==
    \/ ApiMeasure \/ Return \/ ReturnBlack \/ AutoProceed \/ Acquire
    \/ Recall \/ Configure

\* the device as built with four conversions per pixel
ApiInit == Init /\ ADC_AVG_4

ApiSpec == ApiInit /\ [][NextApi]_vars

(* ------------------------------------------------------------------ *)
(* SpecTable: the constructor's last step, for builds of any geometry   *)
(* ------------------------------------------------------------------ *)
\* the constructor before its call of initSpecTimerData: specRead[] is a
\* zero-initialised static of READ_TICKS bytes
TableInit ==
    /\ adcCode \in AdcCodes
    /\ apiCalls = 0
    /\ HostInit
    /\ \E N \in 1..MaxTablePixels, T \in 1..MaxTableTicks :
          /\ MembersInit(N, T, FALSE, ErasedImage, 0)
          /\ specRead = [i \in 0..(ReadTicks(N, T) - 1) |-> 0]
    /\ lastOp = "constructor"

BuildTable ==
    /\ lastOp = "constructor"
    /\ specRead' = initSpecTimerData(SPEC_PIXELS, TICKS_PER_PIXEL)
    /\ lastOp' = "initSpecTimerData"
    /\ UNCHANGED <<SPEC_PIXELS, TICKS_PER_PIXEL, ADC_AVG_4, machVars,
                   INTEG_TICKS, accVars, pins, irqVars, measuringData_,
                   cfgVars, resVars, eeprom, call, envVars, histVars>>

NextTable == BuildTable

SpecTable == TableInit /\ [][NextTable]_vars

(* ------------------------------------------------------------------ *)
(* Properties of the timing state machine                               *)
(* ------------------------------------------------------------------ *)
CycleStates == StateSet \ {"STOP"}
\* the labels of calls that ask for a start from the second thread
SecondStarts == {"startSpecTimer.2", "readSpectrometer.2", "takeMeasurement.2"}

\* C1: after a start the state moves Lead, Reset, Reset2, Integration, Read,
\* Trail, Stop in that order: a state other than Stop changes only to the
\* next one of the list and only by a tick, and Stop changes only to Lead,
\* only by an explicit start made while no cycle is active.
C1_StateOrder ==
    [][/\ (specState' # specState /\ specState # "STOP")
            => (Ord(specState') = Ord(specState) + 1 /\ lastOp' = "tick")
       /\ (specState' # specState /\ specState = "STOP")
            => (specState' = "LEAD" /\ lastOp' = "takeMeasurement" /\ ~timerOn)
      ]_vars

\* a cycle that went through every state and stands in Stop, timer still on
C1_CycleCompleted ==
    /\ timerOn /\ specState = "STOP"
    /\ \A s \in CycleStates : ticksIn[s] > 0

\* the ticks a cycle is to spend in state s
C2_Quota(s) ==
    CASE s = "LEAD" -> LEAD_TICKS
      [] s \in {"RESET", "RESET2", "READ"} ->
            SPEC_PIXELS * TICKS_PER_PIXEL + TRAIL_TICKS
      [] s = "INTEGRATION" -> INTEG_TICKS
      [] s = "TRAIL" -> TRAIL_TICKS
      [] OTHER -> 0

\* C2: in a cycle every state already left has received exactly its quota of
\* ticks (LEAD_TICKS, READ_TICKS, READ_TICKS, INTEG_TICKS, READ_TICKS,
\* TRAIL_TICKS), the current state fewer than its quota, the states ahead none,
\* and Stop is entered on tick LEAD_TICKS + 3*READ_TICKS + INTEG_TICKS +
\* TRAIL_TICKS counted from the start.
C2_TickCounts ==
    timerOn =>
        /\ \A s \in CycleStates :
              ticksIn[s] = IF Ord(s) < Ord(specState) THEN C2_Quota(s)
                           ELSE IF s = specState THEN specCounter ELSE 0
        /\ specState # "STOP" => specCounter < C2_Quota(specState)
        /\ specState = "STOP" =>
              tickNo = LEAD_TICKS + 3 * (SPEC_PIXELS * TICKS_PER_PIXEL + TRAIL_TICKS)
                       + INTEG_TICKS + TRAIL_TICKS

\* Stop reached in a cycle whose lead was stretched for the trigger delay
C2_StopEntered ==
    /\ timerOn /\ specState = "STOP"
    /\ LEAD_TICKS > DEF_LEAD_TICKS
    /\ tickNo = LEAD_TICKS + 3 * READ_TICKS + INTEG_TICKS + TRAIL_TICKS

C4_ReadyEvents ==
    /\ specDataReady => specState = "READ"
    /\ readyCount <= SPEC_PIXELS
    /\ (timerOn /\ Ord(specState) < Ord("READ")) => readyCount = 0
    /\ (timerOn /\ Ord(specState) > Ord("READ")) => readyCount = SPEC_PIXELS
    /\ readyCount >= 2 => readyGap = TICKS_PER_PIXEL

\* Read is over and more than one pixel was signalled
C4_AllPixelsSignalled ==
    /\ specState = "TRAIL" /\ SPEC_PIXELS >= 2
    /\ readyCount = SPEC_PIXELS /\ readyGap = TICKS_PER_PIXEL

\* the table entries carrying the ready bit
C5_ReadyEntries == {i \in DOMAIN specRead : HasBit(specRead[i], READY_BIT)}

C6_IdleTickNoOp ==
    [][(~timerOn /\ lastOp' \in {"tick", "idleTick"})
          => /\ lastOp' = "idleTick"
             /\ UNCHANGED <<specState, specCounter, specCLK, specST,
                            specDataReady, extTRGCounter, specData,
                            specDataCounter, pins, trgPending>>
      ]_vars

\* an idle tick delivered after a measurement was taken
C6_IdleTickSeen ==
    /\ lastOp = "idleTick" /\ ~timerOn
    /\ \E i \in Pixels : data[i] > 0

\* C7: a start requested while timerOn is set changes neither the state, the
\* tick counter, the lead ticks, the trigger counter, the raw accumulators nor
\* the cursor, and the state becomes Lead only while timerOn is false.
C7_StartWhileActive ==
    [][/\ (timerOn /\ lastOp' \in SecondStarts)
            => UNCHANGED <<specState, specCounter, LEAD_TICKS, extTRGCounter,
                           data, dataCounts, specData, specDataCounter>>
       /\ (specState # "LEAD" /\ specState' = "LEAD") => ~timerOn
      ]_vars

\* a start requested after Stop was reached and before the timer is stopped
C7_StartAfterStop ==
    /\ timerOn /\ specState = "STOP"
    /\ lastOp \in {"startSpecTimer.2", "readSpectrometer.2"}

\* the calls made from the keep-alive callback or another context while a call
\* of the application is under way, and the configuration setters
RecallOps ==
    {"takeMeasurement.2", "takeBlackMeasurement.2", "takeAutoMeasurement.2"}

SetterOps ==
    {"setGain", "setAdcReference", "setMeasurementType", "setIntTime",
     "setExtTrgMeasDelay", "setSaturationVoltages",
     "setWavelengthCalibration"}

\* C8: takeAutoMeasurement, takeMeasurement and takeBlackMeasurement called
\* while timerOn or measuringData_ is set return without starting an
\* acquisition: the timer and the state machine, gain, reference voltage,
\* integration ticks, black levels, the measurement vector, the raw
\* accumulators, the busy flag and the configuration store keep their values.
C8_BusyCallNoOp ==
    [][((timerOn \/ measuringData_) /\ lastOp' \in RecallOps)
          => UNCHANGED <<startVars, gain_, adcRef_, INTEG_TICKS, blackLevels_,
                         data_, accVars, measuringData_, eeprom>>
      ]_vars

\* an auto measurement re-entered from its keep-alive point, between two
\* acquisitions, where only measuringData_ marks the device busy
C8_CalledBetweenAcquisitions ==
    /\ lastOp = "takeAutoMeasurement.2"
    /\ measuringData_ /\ ~timerOn
    /\ call.op = "takeAutoMeasurement" /\ call.pc = "keepAlive"

\* C9: every configuration setter called while measuringData_ is set leaves
\* the configuration (gain, reference, measurement type, integration ticks,
\* trigger delay, saturation voltages, calibration, black levels, the gain
\* and reference pins) and the configuration store as they were.
C9_SetterNoOp ==
    [][(measuringData_ /\ lastOp' \in SetterOps)
          => UNCHANGED <<cfgVars, INTEG_TICKS, blackLevels_, pins, eeprom>>
      ]_vars

\* setIntTime called at the keep-alive point of an auto measurement, with the
\* timer off, has replaced the integration ticks the search was stepping
C9_IntTimeSetWhileMeasuring ==
    /\ lastOp = "setIntTime"
    /\ measuringData_ /\ ~timerOn
    /\ call.op = "takeAutoMeasurement" /\ call.pc = "keepAlive"
    /\ INTEG_TICKS = SetIntTime(5000)
    /\ eeprom.intTime = INTEG_TICKS

\* C10: every ready event advances the cursor exactly once: the k-th event is
\* stored in pixel k, none is lost or served twice, no store goes past the
\* last pixel, and after Read the cursor has advanced SPEC_PIXELS times.
C10_CursorPerEvent ==
    /\ advances <= readyCount
    /\ ~misplaced
    /\ ~oobWrite
    /\ (timerOn /\ Ord(specState) > Ord("READ")) => advances = SPEC_PIXELS

\* a cycle past Read in which fewer stores were begun than events were raised
C10_EventLost ==
    /\ timerOn /\ specState = "STOP" /\ isr = IsrIdle
    /\ advances < readyCount

(* ------------------------------------------------------------------ *)
(* SpecProc: processMeasurement over the accumulators a cycle can leave *)
(* ------------------------------------------------------------------ *)
\* what the accumulator of one pixel can hold when a cycle has ended:
\* <<sum, count>>, the sum of count conversion results; a burst cut short
\* leaves a count below NumReads, a lost ready event leaves <<0, 0>>
Samples == {<<0, 0>>, <<12, 1>>, <<12, 2>>, <<12, 4>>, <<4 * ADC_MAX_VALUE, 4>>}

\* EEPROM images found at construction: every measurement type and gain, the
\* lowest and the 4.096 V reference
ProcImages ==
    {[SavedImage(1000, 200) EXCEPT !.measureType = t, !.gain = g, !.adcRef = r] :
        t \in MeasureTypes, g \in Gains, r \in {ADC_2_5V, ADC_4_096V}}

ProcInit ==
    /\ adcCode \in AdcCodes
    /\ apiCalls = 0
    /\ HostInit
    /\ \E N \in 1..MaxPixels, avg4 \in BOOLEAN, e \in ProcImages :
           DeviceInit(N, SENSOR_TICKS_PER_PIXEL, avg4, e, 0)

\* a readout cycle has run and left its sums and counts in data[],
\* dataCounts[]; every caller of readSpectrometer processes them before the
\* next cycle
SampledFrom(samples) ==
    /\ call.op = "none" /\ ~timerOn /\ lastOp # "sampled"
    /\ \E acc \in [Pixels -> {s \in samples : s[2] <= NumReads}] :
          /\ data' = [i \in Pixels |-> acc[i][1]]
          /\ dataCounts' = [i \in Pixels |-> acc[i][2]]
    /\ lastOp' = "sampled"
    /\ UNCHANGED <<buildVars, machVars, INTEG_TICKS, pins, irqVars,
                   measuringData_, cfgVars, resVars, eeprom, call, envVars,
                   histVars>>

Sampled == SampledFrom(Samples)

\* processMeasurement(data_, measurementType_): the vector is written and
\* the maximum returned
ProcessMeasurement ==
    /\ call.op = "none" /\ ~timerOn
    /\ data_' = processMeasurement(data, dataCounts, measurementType_)
    /\ ret' = [op |-> "processMeasurement", value |-> maxVal(data_')]
    /\ lastOp' = "processMeasurement"
    /\ UNCHANGED <<buildVars, machVars, INTEG_TICKS, accVars, pins, irqVars,
                   measuringData_, cfgVars, blackLevels_, eeprom, call,
                   adcCode, apiCalls, source, colour, histVars>>

NextProc == Sampled \/ ProcessMeasurement

SpecProc == ProcInit /\ [][NextProc]_vars

(* ------------------------------------------------------------------ *)
(* Properties of the measurement processor                              *)
(* ------------------------------------------------------------------ *)
\* the value stated for sum S and count C under the current configuration
C11_Stated(S, C) ==
    IF C = 0 THEN <<0, 1>>
    ELSE CASE measurementType_ = "MEASURE_RELATIVE" ->
                Frac(S, C * 65535)
           [] measurementType_ = "MEASURE_VOLTAGE" ->
                Frac(S * adcVoltages[adcRef_], C * 65535 * 1000)
           [] OTHER ->
                Frac(S * adcVoltages[adcRef_],
                     C * 65535 * (IF gain_ = "HIGH_GAIN" THEN satVoltageHighGain_
                                  ELSE satVoltageNoGain_))

\* C11: processMeasurement writes 0 for a count of 0 and otherwise
\* S/(C*65535), S*Vref/(C*65535) or S*Vref/(C*65535*Vsat) by measurement
\* type; for C > 0 the value grows with S and falls with C, and no divisor
\* is 0 for any count, partial counts included.
C11_ProcessedValues ==
    lastOp = "processMeasurement" =>
        /\ \A i \in Pixels :
              /\ data_[i] = C11_Stated(data[i], dataCounts[i])
              /\ data_[i][2] > 0
              /\ dataCounts[i] > 0 =>
                    dataCounts[i] * 65535 * (IF gain_ = "HIGH_GAIN"
                                             THEN satVoltageHighGain_
                                             ELSE satVoltageNoGain_) > 0
        /\ \A i, j \in Pixels :
              /\ (dataCounts[i] = dataCounts[j] /\ dataCounts[i] > 0
                    /\ data[i] < data[j]) => FracLess(data_[i], data_[j])
              /\ (data[i] = data[j] /\ data[i] > 0 /\ dataCounts[i] > 0
                    /\ dataCounts[i] < dataCounts[j])
                    => FracLess(data_[j], data_[i])

\* a vector processed as voltages from a pixel without a sample, or with a
\* partial count, next to a pixel with the full count and a larger sum
C11_PartialAndFullProcessed ==
    /\ lastOp = "processMeasurement"
    /\ measurementType_ = "MEASURE_VOLTAGE"
    /\ \E i, j \in Pixels :
          /\ dataCounts[i] \in {0, 1} /\ dataCounts[j] = 4
          /\ data[j] > data[i]
          /\ FracLess(data_[i], data_[j])

(* ------------------------------------------------------------------ *)
(* SpecRead: the getters over measured and black vectors                *)
(* ------------------------------------------------------------------ *)
FracSub(a, b) == Frac(a[1] * b[2] - b[1] * a[2], a[2] * b[2])

\* a faulty variant: the black level subtracted without the comparison
getDataUnclamped(pixelIdx, subtractBlack, d, black) ==
    IF ~subtractBlack THEN d[pixelIdx]
    ELSE FracSub(d[pixelIdx], black[pixelIdx])

\* getData: the pixel, or with subtractBlack the pixel less its black level,
\* 0 where the pixel is below its black level
getData(pixelIdx, subtractBlack, d, black) ==
    IF ~subtractBlack THEN d[pixelIdx]
    ELSE IF FracLess(d[pixelIdx], black[pixelIdx]) THEN FracZero
    ELSE FracSub(d[pixelIdx], black[pixelIdx])

\* getMeasurement: getData, then the bandpass correction when it is enabled
\* (first pixel, last pixel, interior pixel)
getMeasurement(pixelIdx, subtractBlack) ==
    LET at(p) == getData(p, subtractBlack, data_, blackLevels_)
    IN IF ~applyBandPassCorrection_ THEN at(pixelIdx)
       ELSE IF pixelIdx = 0
       THEN FracSub(FracMul(at(pixelIdx), 1083, 1000),
                    FracMul(at(pixelIdx + 1), 83, 1000))
       ELSE IF pixelIdx = SPEC_PIXELS - 1
       THEN FracSub(FracMul(at(pixelIdx), 1083, 1000),
                    FracMul(at(pixelIdx - 1), 83, 1000))
       ELSE FracSub(FracSub(FracMul(at(pixelIdx), 1166, 1000),
                            FracMul(at(pixelIdx - 1), 83, 1000)),
                    FracMul(at(pixelIdx + 1), 83, 1000))

\* accumulators of the vectors read back: a pixel without a sample, a pixel
\* at full scale
ReadSamples == {<<0, 0>>, <<4 * ADC_MAX_VALUE, 4>>}

ReadInit ==
    /\ adcCode \in AdcCodes
    /\ apiCalls = 0
    /\ HostInit
    /\ \E N \in 2..MaxReadPixels :
           DeviceInit(N, SENSOR_TICKS_PER_PIXEL, TRUE, SavedImage(1000, 200), 0)

ReadCycle == SampledFrom(ReadSamples)

\* processMeasurement(blackLevels_, measurementType_), as takeBlackMeasurement
\* calls it after its cycle
ProcessBlack ==
    /\ call.op = "none" /\ ~timerOn /\ lastOp = "sampled"
    /\ blackLevels_' = processMeasurement(data, dataCounts, measurementType_)
    /\ ret' = [op |-> "processMeasurement", value |-> maxVal(blackLevels_')]
    /\ lastOp' = "processBlack"
    /\ UNCHANGED <<buildVars, machVars, INTEG_TICKS, accVars, pins, irqVars,
                   measuringData_, cfgVars, data_, eeprom, call,
                   adcCode, apiCalls, source, colour, histVars>>

ProcessData == lastOp = "sampled" /\ ProcessMeasurement

\* enableBandpassCorrection
EnableBandpassCorrection(enable) ==
    /\ call.op = "none"
    /\ applyBandPassCorrection_' = enable
    /\ lastOp' = "enableBandpassCorrection"
    /\ UNCHANGED <<buildVars, machVars, INTEG_TICKS, accVars, pins, irqVars,
                   measuringData_, gain_, adcRef_, measurementType_,
                   extTrgMeasDelayUs_, satVoltageHighGain_, satVoltageNoGain_,
                   calibration_, resVars, eeprom, call, envVars, histVars>>

\* a call of getMeasurement: nothing changes but the value returned
GetMeasurement(pixelIdx, subtractBlack) ==
    /\ call.op = "none" /\ lastOp # "sampled"
    /\ ret' = [op |-> "getMeasurement", pixelIdx |-> pixelIdx,
               subtractBlack |-> subtractBlack,
               value |-> getMeasurement(pixelIdx, subtractBlack)]
    /\ lastOp' = "getMeasurement"
    /\ UNCHANGED <<buildVars, machVars, INTEG_TICKS, accVars, pins, irqVars,
                   measuringData_, cfgVars, resVars, eeprom, call,
                   adcCode, apiCalls, source, colour, histVars>>

Bandpass == \E b \in BOOLEAN : b # applyBandPassCorrection_ /\ EnableBandpassCorrection(b)
Get == \E p \in Pixels, b \in BOOLEAN : GetMeasurement(p, b)

NextRead == ReadCycle \/ ProcessData \/ ProcessBlack \/ Bandpass \/ Get

SpecRead == ReadInit /\ [][NextRead]_vars

\* C12 as stated: getMeasurement(p, subtractBlack = true) is at least 0 for
\* every pixel and every pair of vectors, with the bandpass correction
\* enabled or disabled.
C12_NeverNegative ==
    (lastOp = "getMeasurement" /\ ret.subtractBlack) => ret.value[1] >= 0

\* C12: with subtractBlack the value getData yields is at least 0 for every
\* pixel and every pair of vectors, and so is getMeasurement while the
\* bandpass correction is disabled; the corrected value is the weighted
\* difference of those values and is not clamped.
C12_NotNegativeBeforeCorrection ==
    (lastOp = "getMeasurement" /\ ret.subtractBlack) =>
        /\ \A p \in Pixels : getData(p, TRUE, data_, blackLevels_)[1] >= 0
        /\ ~applyBandPassCorrection_ =>
              /\ ret.value[1] >= 0
              /\ ret.value = (IF FracLess(data_[ret.pixelIdx], blackLevels_[ret.pixelIdx])
                              THEN <<0, 1>>
                              ELSE FracSub(data_[ret.pixelIdx], blackLevels_[ret.pixelIdx]))

\* a pixel below its black level read back as 0 with the correction disabled
C12_ClampedToZero ==
    /\ lastOp = "getMeasurement" /\ ret.subtractBlack
    /\ ~applyBandPassCorrection_
    /\ FracLess(data_[ret.pixelIdx], blackLevels_[ret.pixelIdx])
    /\ ret.value = <<0, 1>>

\* ---------------------------------------------------------------------
\* Integration time: setIntTime over the 32-bit requests, read back with
\* getIntTime
\* ---------------------------------------------------------------------

\* requested times in microseconds: both limits and their neighbours, times
\* on and off the tick grid, the largest product that does not wrap, the
\* first that does, and 0xFFFFFFFF
TimeRequests ==
    {0, 1000, 1500, 5000, 5100, 5117, 10000000, 10000001, 429496729, 429496730, -1}

TimeInit ==
    /\ adcCode \in AdcCodes
    /\ apiCalls = 0
    /\ HostInit
    /\ \E N \in 1..MaxPixels, avg4 \in BOOLEAN :
           DeviceInit(N, SENSOR_TICKS_PER_PIXEL, avg4, SavedImage(1000, 200), 0)

\* setIntTime(timeUs, storeInEeprom) called by the host; ret keeps the call
SetTime ==
    \E timeUs \in TimeRequests, storeInEeprom \in BOOLEAN :
        /\ SetIntegrationTime(timeUs, storeInEeprom)
        /\ ret' = [op |-> "setIntTime", timeUs |-> timeUs]
        /\ UNCHANGED <<apiCalls, source, colour>>

\* getIntTime() called by the host after it
GetIntTime ==
    /\ ret.op = "setIntTime"
    /\ ret' = [op |-> "getIntTime", timeUs |-> ret.timeUs, value |-> getIntTime]
    /\ lastOp' = "getIntTime"
    /\ UNCHANGED <<buildVars, machVars, INTEG_TICKS, accVars, pins, irqVars,
                   cfgVars, resVars, measuringData_, call, eeprom, adcCode,
                   apiCalls, source, colour, histVars>>

NextTime == SetTime \/ GetIntTime

SpecTime == TimeInit /\ [][NextTime]_vars

\* the requested time, as the unsigned number its pattern stands for, is at
\* least / at most a limit below 2^31
AtLeast32(timeUs, limit) == timeUs < 0 \/ timeUs >= limit
AtMost32(timeUs, limit) == timeUs >= 0 /\ timeUs <= limit

\* the shortest settable time: minIntTime of setIntTime in microseconds
MinSettableUs ==
    (SPEC_CLK_TICK_TIMER * READ_TICKS + MIN_INTEG_TIME_US * TIMER_US_FACTOR)
        \div TIMER_US_FACTOR

\* C13: for every 32-bit requested time, with timeUs * 10 wrapping mod 2^32,
\* setIntTime leaves the device exactly where a request of the limit leaves
\* it when the request is at or above the maximum (10 s) or at or below the
\* minimum, and getIntTime never returns more than 10 s.
C13_ClampedToLimits ==
    ret.op = "getIntTime" =>
        /\ AtLeast32(ret.timeUs, MAX_INTEG_TIME_US)
               => INTEG_TICKS = SetIntTimeTicks(MAX_INTEG_TIME_US)
        /\ AtMost32(ret.timeUs, MinSettableUs)
               => INTEG_TICKS = SetIntTimeTicks(MinSettableUs)
        /\ ret.value <= MAX_INTEG_TIME_US

\* a request above 10 s whose product wrapped has set the minimum
C13_WrappedToMinimum ==
    /\ ret.op = "getIntTime"
    /\ ret.timeUs = 429496730
    /\ INTEG_TICKS = SetIntTimeTicks(MinSettableUs)
    /\ INTEG_TICKS < SetIntTimeTicks(MAX_INTEG_TIME_US)

\* C14: for a requested time t within the limits, getIntTime after
\* setIntTime(t) is a whole multiple of the tick period and differs from t
\* by less than one tick period (SPEC_CLK_TICK_TIMER / TIMER_US_FACTOR us).
C14_RoundedToTick ==
    (/\ ret.op = "getIntTime"
     /\ ret.timeUs >= MinSettableUs
     /\ ret.timeUs <= MAX_INTEG_TIME_US)
        => \E d \in {ret.value - ret.timeUs} :
               /\ (INTEG_TICKS + READ_TICKS) * SPEC_CLK_TICK_TIMER
                      = ret.value * TIMER_US_FACTOR
               /\ d * TIMER_US_FACTOR < SPEC_CLK_TICK_TIMER
               /\ d * TIMER_US_FACTOR > 0 - SPEC_CLK_TICK_TIMER

\* a request on the tick grid is read back more than one tick period longer
C14_OnGridReadLonger ==
    /\ ret.op = "getIntTime"
    /\ ret.timeUs >= MinSettableUs
    /\ ret.timeUs <= MAX_INTEG_TIME_US
    /\ (ret.timeUs * TIMER_US_FACTOR) % SPEC_CLK_TICK_TIMER = 0
    /\ (ret.value - ret.timeUs) * TIMER_US_FACTOR > SPEC_CLK_TICK_TIMER

\* ---------------------------------------------------------------------
\* Configuration: the constructor over the stored images, then
\* setSaturationVoltages
\* ---------------------------------------------------------------------

\* stored integration ticks: erased, zero, too short, valid, too long, and
\* two values whose product with the tick factor passes 2^32 (with 85 and
\* with 50)
StoredIntTicks == {ERASED, 0, 100, 200, 2000000, 50529145, 85899546}
\* stored and requested saturation voltages in millivolts
StoredSat == {ERASED, 1500, 2500, 4500}
SatArgs == {0, 1000, 2600, 3000, 4001}

\* the stored images: every stored integration time, and every pair of
\* stored saturation voltages
ConfigImages ==
    {SavedImage(1000, t) : t \in StoredIntTicks}
    \cup {[SavedImage(1000, 200) EXCEPT !.satHigh = h, !.satNo = n] :
              h \in StoredSat, n \in StoredSat}

ConfigInit ==
    /\ adcCode \in AdcCodes
    /\ apiCalls = 0
    /\ HostInit
    /\ \E avg4 \in BOOLEAN, e \in ConfigImages :
           DeviceInit(MaxPixels, SENSOR_TICKS_PER_PIXEL, avg4, e, 0)

\* setSaturationVoltages called by the host; ret keeps the call
SetSat ==
    \E h \in SatArgs, n \in SatArgs, storeInEeprom \in BOOLEAN :
        /\ SetSaturationVoltages(h, n, storeInEeprom)
        /\ ret' = [op |-> "setSaturationVoltages", high |-> h, no |-> n,
                   store |-> storeInEeprom]
        /\ UNCHANGED <<apiCalls, source, colour>>

NextConfig == SetSat

SpecConfig == ConfigInit /\ [][NextConfig]_vars

\* what one argument of a call has to leave in the member and in the store
C15_Argument(arg, lowest, highest, before, after, storedBefore, storedAfter, store) ==
    /\ (arg > 0 /\ (arg < lowest \/ arg > highest)) => after = lowest
    /\ (arg >= lowest /\ arg <= highest) => after = arg
    /\ arg <= 0 => (after = before /\ storedAfter = storedBefore)
    /\ (arg > 0 /\ store) => storedAfter = after

C15_Call ==
    lastOp' = "setSaturationVoltages" =>
        /\ C15_Argument(ret'.high, MIN_SAT_VOLTAGE_HIGH_GAIN, MAX_SAT_VOLTAGE_HIGH_GAIN,
                        satVoltageHighGain_, satVoltageHighGain_',
                        eeprom.satHigh, eeprom'.satHigh, ret'.store)
        /\ C15_Argument(ret'.no, MIN_SAT_VOLTAGE_NO_GAIN, MAX_SAT_VOLTAGE_NO_GAIN,
                        satVoltageNoGain_, satVoltageNoGain_',
                        eeprom.satNo, eeprom'.satNo, ret'.store)

C15_Within ==
    /\ satVoltageHighGain_ >= MIN_SAT_VOLTAGE_HIGH_GAIN
    /\ satVoltageHighGain_ <= MAX_SAT_VOLTAGE_HIGH_GAIN
    /\ satVoltageNoGain_ >= MIN_SAT_VOLTAGE_NO_GAIN
    /\ satVoltageNoGain_ <= MAX_SAT_VOLTAGE_NO_GAIN

DurationWithin(x) ==
    /\ x >= 0
    /\ x <= (MAX_INTEG_TIME_US * TIMER_US_FACTOR + TIMER_US_FACTOR - 1)
                \div SPEC_CLK_TICK_TIMER
    /\ x * SPEC_CLK_TICK_TIMER >= MIN_INTEG_TIME_US * TIMER_US_FACTOR

\* C16: at construction, for every stored 32-bit integrationTicks value, the
\* integrationTicks in effect has a duration within [1 ms, 10 s], and a
\* stored value whose duration is outside that range is replaced by the
\* 100 ms default.
C16_StoredTicksValidated ==
    lastOp = "begin" =>
        /\ DurationWithin(INTEG_TICKS)
        /\ ~DurationWithin(eeprom.intTime)
              => INTEG_TICKS = SetIntTimeTicks(DEFAULT_INTEG_TIME_US)

\* a stored value far above 10 s is in effect after construction
C16_WrappedDurationKept ==
    /\ lastOp = "begin"
    /\ INTEG_TICKS = eeprom.intTime
    /\ INTEG_TICKS > uSecToTicks(MAX_INTEG_TIME_US)
    /\ ticksToUsec(INTEG_TICKS) <= MAX_INTEG_TIME_US

\* ---------------------------------------------------------------------
\* Auto exposure on a flat source: every pixel at the same voltage, which
\* grows with the total integration time
\* ---------------------------------------------------------------------

\* the code the ADC yields for a flat source of rate microvolts per tick
\* after total ticks, against a reference of vRef millivolts
FlatCode(rate, total, vRef) ==
    IF rate = 0 THEN 0
    ELSE IF total > (vRef * 1000) \div rate THEN ADC_MAX_VALUE
    ELSE MulDivQR(rate * total, ADC_MAX_VALUE, vRef * 1000)[1]

\* the rate of the source at the present gain
SourceRate == IF gain_ = "HIGH_GAIN" THEN source.high ELSE source.no

\* flat sources as microvolts per tick with and without gain: one step from
\* the target, already at the target, faint (a first reading of a few dozen
\* codes), and saturated with gain
FlatSources ==
    {[kind |-> "flat", high |-> 8000, no |-> 8000],
     [kind |-> "flat", high |-> 16000, no |-> 16000],
     [kind |-> "flat", high |-> 20, no |-> 20],
     [kind |-> "flat", high |-> 30000, no |-> 5000]}

\* stored saturation voltages: <<high gain, no gain>> in millivolts
FlatSat == {<<2500, 1500>>, <<2300, 1500>>}

FlatInit ==
    /\ adcCode \in AdcCodes
    /\ apiCalls = 0
    /\ ret = NoReturn /\ colour = NoColour
    /\ source \in FlatSources \cup {AnyLight}
    /\ \E N \in 1..MaxPixels, s \in FlatSat :
           DeviceInit(N, SENSOR_TICKS_PER_PIXEL, TRUE,
                      [SavedImage(1000, 200) EXCEPT !.satHigh = s[1], !.satNo = s[2]], 0)

\* one readout cycle of the source
AcquireLight ==
    AcquireFrom(IF source.kind = "flat"
                THEN {FlatCode(SourceRate, INTEG_TICKS + READ_TICKS, adcVoltages[adcRef_])}
                ELSE ApiCodes)

AutoMaxRange == ApiCalled /\ TakeAutoMeasurement("AUTO_ALL_MAX_RANGE", FALSE)

NextFlat == AutoMaxRange \/ AutoProceed \/ AcquireLight

SpecFlat == FlatInit /\ [][NextFlat]_vars

\* the peak voltage of the acquisition the accumulators hold
PeakVoltage == maxVal(processMeasurement(data, dataCounts, "MEASURE_VOLTAGE"))

\* the saturation voltage of the present gain clipped to the present reference
ClippedSat ==
    IF SatVoltage > adcVoltages[adcRef_] THEN adcVoltages[adcRef_] ELSE SatVoltage

\* the target is reachable within the integration bounds: at the shortest
\* integration the source is not above 0.99 of the saturation voltage, and
\* at the longest it is not below
Reachable ==
    /\ SourceRate > 0
    /\ uSecToTicks(MAX_INTEG_TIME_US) + READ_TICKS > (ClippedSat * 990 - 1) \div SourceRate
    /\ uSecToTicks(MIN_INTEG_TIME_US) + READ_TICKS <= (ClippedSat * 990) \div SourceRate

\* C17: for a flat source whose peak voltage is proportional to the total
\* integration time and whose target is reachable, takeAutoMeasurement with
\* AUTO_ALL_MAX_RANGE returns with the peak voltage of its final acquisition
\* within [0.975 * 0.99 * satVoltage, 0.99 * satVoltage], satVoltage being
\* the saturation voltage of the gain in effect clipped to the reference.
C17_PeakInBand ==
    (lastOp = "autoMeasured" /\ source.kind = "flat" /\ Reachable) =>
        /\ ~FracLess(PeakVoltage, Frac(ClippedSat * 975 * 99, 100000000))
        /\ ~FracLess(Frac(ClippedSat * 99, 100000), PeakVoltage)

\* a search that stepped the integration time up and returned in the band
C17_SearchedToBand ==
    /\ lastOp = "autoMeasured" /\ source.kind = "flat" /\ Reachable
    /\ INTEG_TICKS > uSecToTicks(MIN_INTEG_TIME_US)
    /\ ~FracLess(PeakVoltage, Frac(ClippedSat * 975, 1000000))
    /\ FracLess(PeakVoltage, Frac(ClippedSat * 99, 100000))

\* ---------------------------------------------------------------------
\* Colorimetry (spectron_cct.cpp): calculateColourParam on the measurement
\* vector and XYZtoCorColorTemp. Chromaticities (u, v) and the table's
\* slopes are held in units of 1e-5, the resolution of the table; the
\* quotient of two fractions with a zero divisor is <<0, 0>> (0/0) or
\* <<1, 0>> (x/0)
\* ---------------------------------------------------------------------
UV_UNIT == 100000

\* reciprocal temperature in 1e-6 / K; the first entry is DBL_MIN
rt ==
    <<
      0, 10, 20, 30, 40, 50, 60, 70,
      80, 90, 100, 125, 150, 175, 200, 225,
      250, 275, 300, 325, 350, 375, 400, 425,
      450, 475, 500, 525, 550, 575, 600
    >>

\* uvt[].u, uvt[].v and uvt[].t in units of 1e-5
uvt_u ==
    <<
      18006, 18066, 18133, 18208, 18293, 18388, 18494, 18611,
      18740, 18880, 19032, 19462, 19962, 20525, 21142, 21807,
      22511, 23247, 24010, 24792, 25591, 26400, 27218, 28039,
      28863, 29685, 30505, 31320, 32129, 32931, 33724
    >>

uvt_v ==
    <<
      26352, 26589, 26846, 27119, 27407, 27709, 28021, 28342,
      28668, 28997, 29326, 30141, 30921, 31647, 32312, 32909,
      33439, 33904, 34308, 34655, 34951, 35200, 35407, 35577,
      35714, 35823, 35907, 35968, 36011, 36038, 36051
    >>

uvt_t ==
    <<
      -24341, -25479, -26876, -28539, -30470, -32675, -35156, -37915,
      -40955, -44278, -47888, -58204, -70471, -84901, -101820, -121680,
      -145120, -172980, -206370, -246810, -296410, -358140, -436330, -537620,
      -672620, -859550, -1132400, -1562800, -2332500, -4077000, -11645000
    >>

\* sqrt(1.0 + uvt[i].t * uvt[i].t) in units of 1e-4
uvt_norm ==
    <<
      10292, 10319, 10355, 10399, 10454, 10520, 10600, 10695,
      10806, 10936, 11087, 11571, 12234, 13118, 14271, 15750,
      17624, 19981, 22932, 26630, 31282, 37184, 44764, 54684,
      68001, 86535, 113681, 156600, 233464, 407823, 1164543
    >>

\* a faulty variant: the interpolation starting at b and running past it
LERPBeyond(a, b, c) == (b - a) * c + b * 1000

\* LERP(a, b, c) with c in thousandths: the result in thousandths of a's unit
LERP(a, b, c) == (b - a) * c + a * 1000

\* di of the loop for table entry i (0..30) as <<w, f>>: the distance is
\* w + f / UV_UNIT in units of 1e-5, with 0 <= f < UV_UNIT
Distance(i, us, vs) ==
    LET dv == vs - uvt_v[i + 1]
        du == us - uvt_u[i + 1]
        prod == MulDivQR(0 - uvt_t[i + 1], IF du < 0 THEN 0 - du ELSE du, UV_UNIT)
    IN IF du >= 0 THEN <<dv + prod[1], prod[2]>>
       ELSE IF prod[2] = 0 THEN <<dv - prod[1], 0>>
       ELSE <<dv - prod[1] - 1, UV_UNIT - prod[2]>>

\* di < 0.0
Negative(d) == d[1] < 0

\* the test of the break: one distance negative, the other not
Bounding(di, dm) ==
    \/ Negative(di) /\ ~Negative(dm)
    \/ ~Negative(di) /\ Negative(dm)

\* the for loop from entry i on, dm being the distance kept: the value of i
\* when it ends
RECURSIVE FirstBounding(_, _, _, _)
FirstBounding(i, dm, us, vs) ==
    IF i = 31 THEN 31
    ELSE IF i > 0 /\ Bounding(Distance(i, us, vs), dm) THEN i
    ELSE FirstBounding(i + 1, Distance(i, us, vs), us, vs)

\* |d| in whole units of 1e-5, rounded up
Magnitude(d) ==
    IF d[2] = 0 THEN (IF d[1] < 0 THEN 0 - d[1] ELSE d[1])
    ELSE IF d[1] >= 0 THEN d[1] + 1 ELSE 0 - d[1]

\* p = dm / (dm - di) in thousandths, after both are divided by their norms
Interpolation(i, di, dm) ==
    LET fromLower == MulDivQR(Magnitude(dm), uvt_norm[i + 1], 1000)[1]
        fromUpper == MulDivQR(Magnitude(di), uvt_norm[i], 1000)[1]
    IN IF fromLower + fromUpper = 0 THEN 0
       ELSE MulDivQR(fromLower, 1000, fromLower + fromUpper)[1]

LCM(a, b) == (a \div GCD(a, b)) * b

\* the three fractions brought to one denominator: their numerators
Whole(xyz) ==
    LET l == LCM(xyz[1][2], LCM(xyz[2][2], xyz[3][2]))
    IN [k \in 1..3 |-> xyz[k][1] * (l \div xyz[k][2])]

\* all three components below 1.0e-20
Degenerate(xyz) == \A k \in 1..3 : xyz[k][1] <= 0

\* us or vs in units of 1e-5: n * X / (X + 15 Y + 3 Z) of whole numbers w
Chroma(n, k, w) == MulDivQR(n * w[k], UV_UNIT, w[1] + 15 * w[2] + 3 * w[3])[1]

\* XYZtoCorColorTemp: the temperature in kelvin as a fraction; <<0, 1>> is
\* the return of 0 and <<1, 0>> is 1 / DBL_MIN
XYZtoCorColorTemp(xyz) ==
    LET us == Chroma(4, 1, Whole(xyz))
        vs == Chroma(6, 2, Whole(xyz))
        i == FirstBounding(0, <<0, 0>>, us, vs)
    IN IF Degenerate(xyz) THEN FracZero
       ELSE IF i = 31 THEN FracZero
       ELSE Frac(1000000000,
                 LERP(rt[i], rt[i + 1],
                      Interpolation(i, Distance(i, us, vs),
                                    Distance(i - 1, us, vs))))

\* the colour matching functions in units of 1e-4 at the wavelengths of the
\* pixels
xFunc_1931(wavelength) ==
    CASE wavelength = 450 -> 3438 [] wavelength = 550 -> 4337
      [] wavelength = 650 -> 2836 [] wavelength = 750 -> 0

yFunc_1931(wavelength) ==
    CASE wavelength = 450 -> 334 [] wavelength = 550 -> 9945
      [] wavelength = 650 -> 1100 [] wavelength = 750 -> 0

zFunc_1931(wavelength) ==
    CASE wavelength = 450 -> 17814 [] wavelength = 550 -> 88
      [] wavelength = 650 -> 0 [] wavelength = 750 -> 0

\* getWavelength: the polynomial in pixelNumber + 1
getWavelength(pixelNumber) ==
    LET p == pixelNumber + 1
    IN calibration_[1] + p * calibration_[2] + p * p * calibration_[3]
       + p * p * p * calibration_[4] + p * p * p * p * calibration_[5]
       + p * p * p * p * p * calibration_[6]

\* twice dLamda for pixel i
TwiceDLamda(i) ==
    IF i = 0 THEN getWavelength(i + 1) - getWavelength(i)
    ELSE IF i = SPEC_PIXELS - 1 THEN getWavelength(i) - getWavelength(i - 1)
    ELSE getWavelength(i + 1) - getWavelength(i - 1)

\* a + b over the least common denominator
FracAdd(a, b) ==
    Frac(a[1] * (LCM(a[2], b[2]) \div a[2]) + b[1] * (LCM(a[2], b[2]) \div b[2]),
         LCM(a[2], b[2]))

\* a / b in floating point
FracDiv(a, b) ==
    IF b[1] = 0 THEN (IF a[1] = 0 THEN <<0, 0>> ELSE <<1, 0>>)
    ELSE Frac(a[1] * b[2], a[2] * b[1])

\* the vector the host holds: the measurement vector of the device
getLastMeasurement(i) == data_[i]

ColourFunc(k, wavelength) ==
    CASE k = 1 -> xFunc_1931(wavelength)
      [] k = 2 -> yFunc_1931(wavelength)
      [] k = 3 -> zFunc_1931(wavelength)

\* xyz[k - 1] after the pixels below n have been added
RECURSIVE Accumulated(_, _)
Accumulated(k, n) ==
    IF n = 0 THEN FracZero
    ELSE FracAdd(Accumulated(k, n - 1),
                 FracMul(getLastMeasurement(n - 1),
                         ColourFunc(k, getWavelength(n - 1)) * TwiceDLamda(n - 1),
                         2 * 10000))

\* a faulty variant: the chromaticity without the test of the sum
ChromaticityUntested(c, sumXYZ) == FracDiv(c, sumXYZ)

\* lines 170-176
Chromaticity(c, sumXYZ) ==
    IF sumXYZ # FracZero THEN FracDiv(c, sumXYZ) ELSE FracZero

\* calculateColourParam(spectron, CCT, x, y); a device that is not
\* connected leaves the three results as they were
CalculateColourParam(connected) ==
    /\ lastOp = "processMeasurement"
    /\ IF connected
       THEN \E xyz \in {[k \in 1..3 |-> Accumulated(k, SPEC_PIXELS)]} :
              \E sumXYZ \in {FracAdd(xyz[1], FracAdd(xyz[2], xyz[3]))} :
                 colour' = [xyz |-> xyz,
                            CCT |-> XYZtoCorColorTemp(xyz),
                            x |-> Chromaticity(xyz[1], sumXYZ),
                            y |-> Chromaticity(xyz[2], sumXYZ)]
       ELSE UNCHANGED colour
    /\ ret' = [op |-> "calculateColourParam", connected |-> connected]
    /\ lastOp' = "calculateColourParam"
    /\ UNCHANGED <<buildVars, machVars, INTEG_TICKS, accVars, pins, irqVars,
                   measuringData_, cfgVars, resVars, eeprom, call, adcCode,
                   apiCalls, source, histVars>>

\* an XYZ whose (u, v) is the point p, in units of 1e-5
FromUV(p) == <<<<3 * p[1], 1>>, <<2 * p[2], 1>>, <<400000 - p[1] - 10 * p[2], 1>>>>

TablePoints == {<<uvt_u[k], uvt_v[k]>> : k \in 1..31}
\* points halfway between neighbouring entries, D65, the equal-energy
\* white, and points past both ends of the table and off the locus
OtherPoints ==
    {<<(uvt_u[k] + uvt_u[k + 1]) \div 2, (uvt_v[k] + uvt_v[k + 1]) \div 2>> : k \in 1..30}
    \cup {<<19783, 31210>>, <<21053, 31579>>, <<35000, 36000>>, <<17000, 25000>>,
          <<20000, 50000>>, <<25000, 10000>>}
XYZInputs ==
    {FromUV(p) : p \in TablePoints \cup OtherPoints}
    \cup {<<FracZero, FracZero, FracZero>>, <<<<-1, 1>>, <<-1, 1>>, <<-1, 1>>>>}

\* XYZtoCorColorTemp(xyz) called by the host on the XYZ it holds
XYZtoCCT ==
    /\ ret.op = "xyz"
    /\ ret' = [op |-> "XYZtoCorColorTemp", xyz |-> ret.xyz,
               value |-> XYZtoCorColorTemp(ret.xyz)]
    /\ lastOp' = "XYZtoCorColorTemp"
    /\ UNCHANGED <<buildVars, machVars, INTEG_TICKS, accVars, pins, irqVars,
                   measuringData_, cfgVars, resVars, eeprom, call, adcCode,
                   apiCalls, source, colour, histVars>>

\* a calibration that puts the pixels at 450, 550, 650, ... nm
ColourImage(type) ==
    [SavedImage(1000, 200) EXCEPT !.measureType = type,
                                  !.calib = <<350, 100, 0, 0, 0, 0>>]

ColourInit ==
    /\ adcCode \in AdcCodes
    /\ apiCalls = 0
    /\ HostInit
    /\ \E N \in 2..MaxReadPixels :
           DeviceInit(N, SENSOR_TICKS_PER_PIXEL, TRUE, ColourImage("MEASURE_RELATIVE"), 0)

ColourCycle == SampledFrom(ReadSamples)
Colour == \E connected \in BOOLEAN : CalculateColourParam(connected)

NextColour == ColourCycle \/ ProcessData \/ Colour

SpecColour == ColourInit /\ [][NextColour]_vars

\* the host holds one XYZ of XYZInputs to convert
CCTInit ==
    /\ adcCode \in AdcCodes
    /\ apiCalls = 0
    /\ colour = NoColour
    /\ source = AnyLight
    /\ \E xyz \in XYZInputs : ret = [op |-> "xyz", xyz |-> xyz]
    /\ DeviceInit(2, SENSOR_TICKS_PER_PIXEL, TRUE, ColourImage("MEASURE_RELATIVE"), 0)

SpecCCT == CCTInit /\ [][XYZtoCCT]_vars

\* C18: when every raw sum and sample count is zero, processMeasurement
\* leaves a measurement vector of zeros and returns 0 (for every
\* measurement type), and the colour calculated from it has CCT = 0, x = 0
\* and y = 0, none of them the result of a division by zero.
C18_ZeroSpectrum ==
    (/\ lastOp = "calculateColourParam" /\ ret.connected
     /\ \A i \in Pixels : data[i] = 0 /\ dataCounts[i] = 0)
        => /\ data_ = ZeroFracs
           /\ \A type \in MeasureTypes :
                 /\ processMeasurement(data, dataCounts, type) = ZeroFracs
                 /\ maxVal(processMeasurement(data, dataCounts, type)) = FracZero
           /\ colour.xyz = <<FracZero, FracZero, FracZero>>
           /\ colour.CCT = FracZero
           /\ colour.x = FracZero
           /\ colour.y = FracZero

\* the colour of an all-zero acquisition has been calculated
C18_ZeroColourCalculated ==
    /\ lastOp = "calculateColourParam" /\ ret.connected
    /\ \A i \in Pixels : data[i] = 0 /\ dataCounts[i] = 0
    /\ colour.CCT = FracZero

\* C19: for every one of the 31 table entries, XYZtoCorColorTemp of an XYZ
\* whose (u, v) equals the entry's returns 1 / rt of that entry, the first
\* and the last entry included.
C19_TableRoundTrip ==
    ret.op = "XYZtoCorColorTemp" =>
        \A k \in 1..31 :
            ret.xyz = FromUV(<<uvt_u[k], uvt_v[k]>>)
                => ret.value = Frac(1000000, rt[k])

\* the last entry's own point is answered with 0
C19_LastEntryZero ==
    /\ ret.op = "XYZtoCorColorTemp"
    /\ ret.xyz = FromUV(<<uvt_u[31], uvt_v[31]>>)
    /\ ret.value = FracZero

\* the pairs (i - 1, i) of entries whose distances from the point of xyz
\* differ in sign, a distance of 0 counting as positive
SignChanges(xyz) ==
    {i \in 1..30 :
        Bounding(Distance(i, Chroma(4, 1, Whole(xyz)), Chroma(6, 2, Whole(xyz))),
                 Distance(i - 1, Chroma(4, 1, Whole(xyz)), Chroma(6, 2, Whole(xyz))))}

\* the temperature t (a fraction of kelvin) lies between those of the
\* entries i - 1 and i
BetweenEntries(t, i) ==
    /\ MulDivQR(t[1], rt[i + 1], 1000000)[1] >= t[2]
    /\ \E low \in {MulDivQR(t[1], rt[i], 1000000)} :
           low[1] < t[2] \/ (low[1] = t[2] /\ low[2] = 0)

\* C20: XYZtoCorColorTemp returns 0 when XYZ is degenerate or no adjacent
\* pair of distances changes sign; otherwise its result lies between the
\* temperatures of the first adjacent pair (i - 1, i) whose distances differ
\* in sign.
C20_SentinelOrBracketed ==
    ret.op = "XYZtoCorColorTemp" =>
        IF Degenerate(ret.xyz) \/ SignChanges(ret.xyz) = {}
        THEN ret.value = FracZero
        ELSE \E first \in SignChanges(ret.xyz) :
                /\ \A i \in SignChanges(ret.xyz) : first <= i
                /\ BetweenEntries(ret.value, first)

\* a point strictly between two isotherms past the first pair
C20_Interpolated ==
    /\ ret.op = "XYZtoCorColorTemp"
    /\ ~Degenerate(ret.xyz)
    /\ \E i \in SignChanges(ret.xyz) :
          /\ i > 1
          /\ ret.value # Frac(1000000, rt[i])
          /\ ret.value # Frac(1000000, rt[i + 1])
          /\ BetweenEntries(ret.value, i)

\* ---------------------------------------------------------------------
\* The trigger lines and the clock output during a cycle (Spec)
\* ---------------------------------------------------------------------
\* the running cycle was started with external triggering and a delay
ExtTrgUsed == timerOn /\ extPinTRG # NO_PIN /\ extTrgMeasDelayUs_ > 0

\* the tick of the cycle that lies the requested delay before the entry
\* into Integration
DelayBeforeIntegration ==
    LEAD_TICKS + READ_TICKS + READ_TICKS
    - (uSecToTicks(extTrgMeasDelayUs_) - (uSecToTicks(extTrgMeasDelayUs_) % 2))

\* C21: with external triggering and a positive delay the trigger line is
\* high for exactly EXT_TRG_HIGH_TICKS ticks, and that hold ends the
\* requested delay (in ticks) before the machine enters Integration.
C21_HoldEndsDelayBefore ==
    (ExtTrgUsed /\ specState # "STOP") =>
        (pins["TRG"] = HIGH <=>
            /\ tickNo >= DelayBeforeIntegration - EXT_TRG_HIGH_TICKS
            /\ tickNo < DelayBeforeIntegration)

\* a cycle whose lead absorbs the delay has reached Integration, the down
\* counter has run out, and the trigger line is low
C21_NeverAsserted ==
    /\ ExtTrgUsed
    /\ LEAD_TICKS > DEF_LEAD_TICKS
    /\ specState = "INTEGRATION"
    /\ extTRGCounter = 0
    /\ pins["TRG"] = LOW

\* the requested delay in ticks, made even
EvenDelayTicks(delayUs) == uSecToTicks(delayUs) - (uSecToTicks(delayUs) % 2)

\* the lead of a start with delay d (in ticks) that falls back to the
\* default up to the limit given
LeadWithLimit(used, d, limit) ==
    IF used /\ d > limit THEN d - READ_TICKS - READ_TICKS ELSE DEF_LEAD_TICKS

\* C22 as stated: at every start LEAD_TICKS is the default exactly when the
\* delay is smaller than two readout passes plus the hold duration, else
\* the delay minus two readout passes; the default without triggering.
C22_FallbackBelowHold ==
    timerOn =>
        LEAD_TICKS =
            IF ExtTrgUsed
               /\ ~(EvenDelayTicks(extTrgMeasDelayUs_)
                       < READ_TICKS + READ_TICKS + EXT_TRG_HIGH_TICKS)
            THEN EvenDelayTicks(extTrgMeasDelayUs_) - READ_TICKS - READ_TICKS
            ELSE DEF_LEAD_TICKS

\* a step that starts the timer
C22_Start ==
    (~timerOn /\ timerOn') =>
        LEAD_TICKS' = LeadWithLimit(extPinTRG' # NO_PIN /\ extTrgMeasDelayUs_' > 0,
                                    EvenDelayTicks(extTrgMeasDelayUs_'),
                                    DEF_LEAD_TICKS + READ_TICKS + READ_TICKS)

\* with a lead that absorbs the delay, Integration is entered on the tick
\* whose number is the delay
C22_LeadLastsDelay ==
    (ExtTrgUsed /\ LEAD_TICKS # DEF_LEAD_TICKS
       /\ specState = "INTEGRATION" /\ specCounter = 0)
        => tickNo = EvenDelayTicks(extTrgMeasDelayUs_)

\* C22 (amended): every start recomputes LEAD_TICKS whatever it held: with
\* external triggering and a delay (in ticks, made even) above
\* DEF_LEAD_TICKS + 2 * READ_TICKS it is the delay minus two readout passes,
\* so that Lead, Reset and Reset2 together last exactly that delay; in every
\* other start it is DEF_LEAD_TICKS.
C22_LeadRecomputed == [][C22_Start]_vars /\ []C22_LeadLastsDelay

\* a lead other than the default is left behind by a cycle that has ended
C22_LongLeadLeft ==
    /\ ~timerOn
    /\ call.op = "none"
    /\ LEAD_TICKS > DEF_LEAD_TICKS
    /\ LEAD_TICKS < EXT_TRG_HIGH_TICKS

\* the running cycle was started with light triggering
LightUsed == timerOn /\ extPinLIGHT # NO_PIN

\* C23 as stated: with light triggering the light line is high from the
\* tick that enters Reset2 to the tick that leaves Trail and low at every
\* other point of the cycle and after it.
C23_LightFromReset2 ==
    /\ LightUsed =>
          (pins["LIGHT"] = HIGH <=>
              specState \in {"RESET2", "INTEGRATION", "READ", "TRAIL"})
    /\ ~timerOn => pins["LIGHT"] = LOW

\* C23 (amended): with light triggering the light line is raised on the
\* tick at which the machine leaves Reset2 and enters Integration and
\* lowered on the tick at which it leaves Trail; it is low in Lead, Reset,
\* Reset2 and Stop, after the cycle, and in cycles without light triggering.
C23_LightFromIntegration ==
    /\ LightUsed =>
          (pins["LIGHT"] = HIGH <=> specState \in {"INTEGRATION", "READ", "TRAIL"})
    /\ ~LightUsed => pins["LIGHT"] = LOW

\* the light line is high on the last tick before Trail is left
C23_LightHighInTrail ==
    /\ LightUsed
    /\ specState = "TRAIL"
    /\ specCounter = TRAIL_TICKS - 1
    /\ pins["LIGHT"] = HIGH

\* a step of the tick handler with the timer started
C24_Tick == timerOn /\ lastOp' = "tick"

\* C24 as stated: a tick in Integration leaves the level of the clock line
\* as it is, a tick in Lead, Reset, Reset2, Read or Trail inverts it.
C24_IdleInIntegration ==
    [][C24_Tick =>
          /\ specState = "INTEGRATION" => pins'["CLK"] = pins["CLK"]
          /\ specState \in {"LEAD", "RESET", "RESET2", "READ", "TRAIL"}
                => pins'["CLK"] # pins["CLK"]]_vars

\* C24 (amended): every tick in Lead, Reset, Reset2, Integration, Read and
\* Trail outputs one clock half-period (the level of the clock line
\* alternates on every tick, in Integration as in the other states); a tick
\* in Stop writes the line low.
C24_ClockRunsInIntegration ==
    [][C24_Tick =>
          /\ specState # "STOP" => pins'["CLK"] = 1 - pins["CLK"]
          /\ specState = "STOP" => pins'["CLK"] = LOW]_vars

\* the clock line has gone high on the first tick spent in Integration
C24_ClockHighInIntegration ==
    /\ timerOn
    /\ lastOp = "tick"
    /\ specState = "INTEGRATION"
    /\ specCounter = 1
    /\ pins["CLK"] = HIGH

\* C25 as stated: in Stop the clock, start, trigger and light lines are low
\* from the moment Stop is entered.
C25_LowOnEntry ==
    specState = "STOP" =>
        \A p \in {"CLK", "ST", "TRG", "LIGHT"} : pins[p] = LOW

\* in Stop: the trigger and light lines and the levels kept for the clock
\* and start lines are low; so are the two lines once the timer is stopped
C25_InStop ==
    specState = "STOP" =>
        /\ pins["TRG"] = LOW /\ pins["LIGHT"] = LOW
        /\ specCLK = LOW /\ specST = LOW
        /\ ~timerOn => (pins["CLK"] = LOW /\ pins["ST"] = LOW)

\* a tick in Stop writes the clock and start lines low, and they stay low
\* while the machine is in Stop
C25_StopStep ==
    /\ (specState = "STOP" /\ timerOn /\ lastOp' = "tick")
          => (specState' = "STOP" /\ pins'["CLK"] = LOW /\ pins'["ST"] = LOW)
    /\ (specState = "STOP" /\ specState' = "STOP"
          /\ pins["CLK"] = LOW /\ pins["ST"] = LOW)
          => (pins'["CLK"] = LOW /\ pins'["ST"] = LOW)

\* C25 (amended): on the tick that enters Stop the light line is lowered
\* and the levels kept for the clock and start lines are cleared; the
\* trigger line is low by then; the clock and start lines themselves are
\* low from the next tick, or from stopSpecTimer if it comes first, and all
\* four lines then stay low until the next start.
C25_StopClears == []C25_InStop /\ [][C25_StopStep]_vars

\* a tick taken in Stop has lowered the start line
C25_ClearedByTick ==
    /\ timerOn
    /\ specState = "STOP"
    /\ lastOp = "tick"
    /\ tickNo > 0
    /\ \A p \in {"CLK", "ST", "TRG", "LIGHT"} : pins[p] = LOW

\* ---------------------------------------------------------------------
\* The raw sums and counts under the interleaving of the two interrupts
\* ---------------------------------------------------------------------
\* C26: the raw sums and sample counts are all zero when a cycle starts,
\* and afterwards they change only in steps of the sampling interrupt taken
\* while the machine is in Read (so never in Lead, Reset, Reset2,
\* Integration, Trail or Stop, and never once the cursor has been cleared).
C26_WrittenOnlyInRead ==
    [][/\ (~timerOn /\ timerOn') =>
              (data' = ZeroInts /\ dataCounts' = ZeroInts)
       /\ (timerOn /\ (data' # data \/ dataCounts' # dataCounts)) =>
              (lastOp' = "trg" /\ specState = "READ" /\ specData # NULL)]_vars

\* the first conversion of a burst has just been stored while the machine
\* is in Trail and the cursor is cleared
C26_StoredInTrail ==
    /\ specState = "TRAIL"
    /\ specData = NULL
    /\ lastOp = "trg"
    /\ isr.pc = "check" /\ isr.rd = 2
    /\ dataCounts[isr.c] = 1

\* each sum is the total of as many conversions as its count, and no count
\* exceeds the oversampling factor
C27_SumsMatchCounts ==
    \A i \in Pixels :
        /\ data[i] = dataCounts[i] * adcCode
        /\ dataCounts[i] <= NumReads

\* C27: a conversion of a burst, the first included, adds to the sum and
\* the count only if the ready flag is still set when its result is read;
\* each sum is the total of exactly as many conversions as its count, and
\* the count never exceeds the oversampling factor.
C27_AbandonedWhenCleared ==
    /\ [][(timerOn /\ lastOp' = "trg"
             /\ (data' # data \/ dataCounts' # dataCounts)) => specDataReady]_vars
    /\ []C27_SumsMatchCounts

\* the first conversion of a burst has just been stored although a tick
\* had cleared the ready flag
C27_FirstStoredAfterClear ==
    /\ specState = "READ"
    /\ ~specDataReady
    /\ lastOp = "trg"
    /\ isr.pc = "check" /\ isr.rd = 2
    /\ dataCounts[isr.c] = 1


\* ---------------------------------------------------------------------
\* The integration search of takeAutoMeasurement (SpecFlat)
\* ---------------------------------------------------------------------

\* the target of the search and the two readings of its lower bound, in
\* volts, from the gain and the reference in effect
SearchTarget == Frac(ClippedSat * 99, 100000)
LowerOfSaturation == Frac(ClippedSat * 975, 1000000)
LowerOfTarget == Frac(ClippedSat * 975 * 99, 100000000)

\* the search has just decided whether to go on
SearchDecided ==
    call.op = "takeAutoMeasurement" /\ lastOp \in {"autoSetup", "autoCheck"}

\* C28 as stated: the search iterates exactly while the measured peak is
\* outside [lowerBound, target] with target = 0.99 * the clipped saturation
\* voltage and lowerBound = 0.975 * target: it starts when the initial peak
\* is below lowerBound or above target, and goes on after no peak inside
\* the band.
C28_BandBelowTarget ==
    LET peak == call.maxMeasuredVoltage
        inBand == ~FracLess(peak, LowerOfTarget) /\ ~FracLess(SearchTarget, peak)
    IN /\ (SearchDecided /\ lastOp = "autoSetup") => (call.pc = "loop" <=> ~inBand)
       /\ (SearchDecided /\ inBand) => call.pc # "loop"

\* the exits of an iteration other than the band: the integration time at a
\* limit with the peak on the far side, or a step of at most 2 ticks
SearchExhausted ==
    \/ /\ INTEG_TICKS = uSecToTicks(MAX_INTEG_TIME_US)
       /\ FracLess(call.maxMeasuredVoltage, SearchTarget)
    \/ /\ INTEG_TICKS = uSecToTicks(MIN_INTEG_TIME_US)
       /\ FracLess(SearchTarget, call.maxMeasuredVoltage)
    \/ call.intTicksStep <= 2

\* C28: target = 0.99 * the saturation voltage of the gain in effect clipped
\* to the reference, lowerBound = 0.975 * that clipped saturation voltage
\* (not * target). The search starts exactly when the initial peak is below
\* lowerBound (an initial peak above target is left alone), and after an
\* iteration it goes on exactly when the peak is outside [lowerBound, target)
\* and neither limit nor step ends it.
C28_BandBelowSaturation ==
    LET peak == call.maxMeasuredVoltage
        inBand == ~FracLess(peak, LowerOfSaturation) /\ FracLess(peak, SearchTarget)
    IN /\ (SearchDecided /\ lastOp = "autoSetup")
            => (call.pc = "loop" <=> FracLess(peak, LowerOfSaturation))
       /\ (SearchDecided /\ lastOp = "autoCheck")
            => (call.pc = "loop" <=> ~inBand /\ ~SearchExhausted)

\* the search goes on from a peak between 0.975 * target and lowerBound
C28_ContinuedInsideClaimedBand ==
    /\ SearchDecided /\ call.pc = "loop"
    /\ ~FracLess(call.maxMeasuredVoltage, LowerOfTarget)
    /\ FracLess(call.maxMeasuredVoltage, LowerOfSaturation)


\* (target - peak) * ticks / peak cut to an integer, for the peak of the
\* last acquisition
ScaledStep(ticks) ==
    LET peak == call.maxMeasuredVoltage
    IN MulDivQR(SearchTarget[1] * peak[2] - peak[1] * SearchTarget[2], ticks,
                peak[1] * SearchTarget[2])[1]

\* an iteration of the search with a step up of stepUp ticks, or the halved
\* step down, then the limits, then the acquisition
Iteration(stepUp) ==
    LET up == FracLess(call.maxMeasuredVoltage, SearchTarget)
        step == IF up THEN stepUp ELSE call.intTicksStep \div 2
        moved == IF up THEN INTEG_TICKS + step
                 ELSE IF INTEG_TICKS < step THEN 0 ELSE INTEG_TICKS - step
    IN /\ call'.intTicksStep = step
       /\ INTEG_TICKS' = IF moved < uSecToTicks(MIN_INTEG_TIME_US)
                         THEN uSecToTicks(MIN_INTEG_TIME_US)
                         ELSE IF moved > uSecToTicks(MAX_INTEG_TIME_US)
                         THEN uSecToTicks(MAX_INTEG_TIME_US)
                         ELSE moved
       /\ timerOn' /\ specState' = "LEAD"

\* a step of the search loop up to the start of its acquisition
SearchIterates == call.op = "takeAutoMeasurement" /\ lastOp' = "autoStep"

StoppedOnStepOvershot ==
    /\ FracLess(SearchTarget, call.maxMeasuredVoltage)
    /\ INTEG_TICKS # uSecToTicks(MIN_INTEG_TIME_US)
    /\ call.intTicksStep <= 2

\* the steps of takeAutoMeasurement that start an acquisition
StartsAcquisition == lastOp' \in {"autoRead", "autoStep", "autoRollback"}

C30_Step ==
    call.op = "takeAutoMeasurement" =>
        /\ (call.pc = "check" /\ lastOp' = "autoCheck")
              => /\ call'.pc \in {"loop", "finish", "rollback"}
                 /\ call'.pc = "rollback" <=> StoppedOnStepOvershot
        /\ call.pc = "rollback"
              => /\ lastOp' = "autoRollback"
                 /\ INTEG_TICKS' = INTEG_TICKS - 2 * call.intTicksStep
                 /\ timerOn' /\ specState' = "LEAD"
        /\ (call.pc = "wait" /\ call.phase = "rollback" /\ call'.pc # "wait")
              => call'.pc = "finish"
        /\ call.pc = "finish" => call'.op = "none"
        /\ (INTEG_TICKS' # INTEG_TICKS \/ (timerOn' /\ ~timerOn))
              => StartsAcquisition

\* C30: when the search stops because the step is 2 ticks or fewer and the
\* final peak is above the target, integrationTicks is reduced by twice the
\* last step and exactly one more acquisition is made with that value; on
\* every other exit no acquisition follows, and integrationTicks changes
\* only where an acquisition starts, so it keeps the value of the last one.
C30_RollbackOnce == [][C30_Step]_vars

\* the acquisition after a rollback by a step of 1 or 2 ticks has returned
\* and the call is about to finish
C30_RolledBack ==
    /\ call.op = "takeAutoMeasurement" /\ call.pc = "finish"
    /\ call.phase = "rollback" /\ call.intTicksStep > 0
    /\ lastOp = "autoReturn"


\* ---------------------------------------------------------------------
\* The keep-alive of the integration search (SpecFlat)
\* ---------------------------------------------------------------------

\* C31: every acquisition of the search whose integration time exceeds one
\* second is preceded, in its own iteration and before it starts, by the
\* keep-alive: no such acquisition starts from an iteration that did not
\* call it.
C31_KeepAliveBeforeLongAcquisition ==
    [][(SearchIterates /\ getIntTime' > KEEP_ALIVE_US)
          => call.pc = "keepAlive"]_vars

\* the first iteration, entered at the shortest integration time, has
\* started an acquisition of more than one second
C31_LongAfterShort ==
    /\ call.op = "takeAutoMeasurement" /\ lastOp = "autoStep"
    /\ call.iter = 1
    /\ timerOn /\ specState = "LEAD"
    /\ getIntTime > KEEP_ALIVE_US


\* ---------------------------------------------------------------------
\* The reference selected by takeAutoMeasurement (SpecRef)
\* ---------------------------------------------------------------------

\* the references at or above / strictly above a voltage v (a fraction of
\* volts), and the lowest of a set of references
ReachingRefs(v) == {r \in AdcRefs : ~FracLess(Volts(adcVoltages[r]), v)}
ExceedingRefs(v) == {r \in AdcRefs : FracLess(v, Volts(adcVoltages[r]))}
LowestRef(S) == CHOOSE r \in S : \A q \in S : adcVoltages[r] <= adcVoltages[q]

\* the steps of takeAutoMeasurement that select a reference, each with the
\* voltage it selects for: the entry (high-gain saturation voltage), the
\* switch to no gain (its saturation voltage), and under the
\* minimum-integration type the peak below saturation
SelectsFor(v) ==
    \/ /\ call.op = "none" /\ call'.op = "takeAutoMeasurement"
       /\ call'.autoType # "AUTO_FOR_SET_REF"
       /\ v = Volts(satVoltageHighGain_)
    \/ /\ call.op = "takeAutoMeasurement" /\ call.pc = "judge"
       /\ lastOp' = "autoJudge" /\ gain_' = "NO_GAIN"
       /\ call.autoType # "AUTO_FOR_SET_REF"
       /\ v = Volts(satVoltageNoGain_)
    \/ /\ call.op = "takeAutoMeasurement" /\ call.pc = "setup"
       /\ lastOp' = "autoSetup"
       /\ call.autoType = "AUTO_ALL_MIN_INTEG"
       /\ FracLess(call.maxMeasuredVoltage, call.satVoltage)
       /\ v = call.maxMeasuredVoltage

\* the voltages a selection is made for
SelectedFor ==
    {Volts(satVoltageHighGain_), Volts(satVoltageNoGain_), call.maxMeasuredVoltage}

\* stored saturation voltages <<high gain, no gain>> in millivolts across the
\* permitted range, the reference voltages among them, and sensor codes
\* that put the peak below, between and above the references
RefSat == {<<2300, 1400>>, <<2500, 1500>>, <<2600, 2500>>, <<3000, 2700>>,
           <<3500, 2000>>, <<4000, 2700>>}
RefCodes == {255, 42000, 63736, ADC_MAX_VALUE}

RefInit ==
    /\ adcCode \in AdcCodes
    /\ apiCalls = 0
    /\ ret = NoReturn /\ colour = NoColour
    /\ source = AnyLight
    /\ \E s \in RefSat :
           DeviceInit(1, SENSOR_TICKS_PER_PIXEL, TRUE,
                      [SavedImage(1000, 200) EXCEPT !.satHigh = s[1], !.satNo = s[2]], 0)

\* one call of takeAutoMeasurement, of any type
AutoAny == apiCalls = 0 /\ ApiCalled /\ \E r \in AutoRequests : TakeAutoMeasurement(r[1], r[2])
AcquireRef == AcquireFrom(RefCodes)

NextRef == AutoAny \/ AutoProceed \/ AcquireRef

SpecRef == RefInit /\ [][NextRef]_vars

\* C32 as stated: the reference selected for a voltage v is the lowest of
\* the four references that strictly exceeds v, also for v equal to a
\* reference voltage.
C32_LowestExceeding ==
    [][\A v \in SelectedFor :
          SelectsFor(v) => adcRef_' = LowestRef(ExceedingRefs(v))]_vars

\* C32: the reference selected for a voltage v is the lowest reference that
\* is not below v: for v equal to a reference voltage it is that reference.
C32_LowestReaching ==
    [][\A v \in SelectedFor :
          SelectsFor(v) => adcRef_' = LowestRef(ReachingRefs(v))]_vars

\* a reference has been selected for a voltage equal to it
C32_SelectedEqual ==
    /\ call.op = "takeAutoMeasurement" /\ call.pc = "delay1"
    /\ call.autoType # "AUTO_FOR_SET_REF"
    /\ lastOp = "takeAutoMeasurement"
    /\ satVoltageHighGain_ = adcVoltages[adcRef_]


\* ---------------------------------------------------------------------
\* What takeAutoMeasurement leaves in the store (SpecRef)
\* ---------------------------------------------------------------------

\* a step of a run of takeAutoMeasurement, its entry included, and the type
\* of the run
AutoRuns == call.op = "takeAutoMeasurement" \/ call'.op = "takeAutoMeasurement"
AutoTypeOfRun ==
    IF call.op = "takeAutoMeasurement" THEN call.autoType ELSE call'.autoType

C33_Step ==
    AutoRuns =>
        /\ AutoTypeOfRun = "AUTO_FOR_SET_REF"
              => adcRef_' = adcRef_ /\ eeprom'.adcRef = eeprom.adcRef
        /\ lastOp' = "autoMeasured"
              => /\ call'.op = "none" /\ ~measuringData_'
                 /\ eeprom'.intTime = INTEG_TICKS' /\ INTEG_TICKS' = INTEG_TICKS
                 /\ eeprom'.gain = gain_' /\ gain_' = gain_
                 /\ AutoTypeOfRun # "AUTO_FOR_SET_REF"
                       => eeprom'.adcRef = adcRef_' /\ adcRef_' = adcRef_

\* C33: when takeAutoMeasurement completes, the store holds the final
\* integrationTicks and gain, equal to the values in memory, and the final
\* reference is written to it when the type is not AUTO_FOR_SET_REF; under
\* AUTO_FOR_SET_REF no step of the run changes the reference in memory or
\* the stored one.
C33_StoredOnCompletion == [][C33_Step]_vars

\* a run that kept the 4.096 V reference although the saturation voltages
\* call for a lower one (AUTO_FOR_SET_REF) has completed with the gain
\* switched off and stored
C33_SetRefCompleted ==
    /\ lastOp = "autoMeasured" /\ call.op = "none"
    /\ satVoltageHighGain_ <= adcVoltages[ADC_3V]
    /\ adcRef_ = ADC_4_096V /\ eeprom.adcRef = ADC_4_096V
    /\ gain_ = "NO_GAIN" /\ eeprom.gain = "NO_GAIN"
    /\ eeprom.intTime = INTEG_TICKS


\* ---------------------------------------------------------------------
\* The external trigger pulse and its down counter (Spec)
\* ---------------------------------------------------------------------

\* the trigger line is high exactly on the last EXT_TRG_HIGH_TICKS counts of
\* the down counter once the cycle is ticking, and the counter has run out
\* when Stop is reached
C34_PulseOnLastCounts ==
    (ExtTrgUsed /\ tickNo > 0) =>
        /\ pins["TRG"] = HIGH
              <=> (extTRGCounter > 0 /\ extTRGCounter <= EXT_TRG_HIGH_TICKS)
        /\ extTRGCounter <= EXT_TRG_HIGH_TICKS + LEAD_TICKS + READ_TICKS + READ_TICKS
        /\ specState = "STOP" => extTRGCounter = 0

\* C34: for every positive delay with external triggering, below and above
\* the default lead plus two readout passes, the trigger line goes high once
\* in the cycle and low EXT_TRG_HIGH_TICKS ticks later: every tick counts the
\* down counter down by one until it is 0, never past it, the line is high
\* exactly on its last EXT_TRG_HIGH_TICKS counts, and the counter is 0 when
\* Stop is reached.
C34_OnePulsePerCycle ==
    /\ [][(ExtTrgUsed /\ lastOp' \in {"tick", "idleTick"} /\ timerOn')
            => extTRGCounter' = (IF extTRGCounter > 0 THEN extTRGCounter - 1 ELSE 0)]_vars
    /\ []C34_PulseOnLastCounts

\* the first tick of a cycle whose lead absorbs the delay has taken the
\* counter below EXT_TRG_HIGH_TICKS with the trigger line still low
C34_ComparePassed ==
    /\ ExtTrgUsed /\ LEAD_TICKS > DEF_LEAD_TICKS
    /\ tickNo = 1
    /\ extTRGCounter = EXT_TRG_HIGH_TICKS - 1
    /\ pins["TRG"] = LOW


\* ---------------------------------------------------------------------
\* The integration time takeAutoMeasurement returns with (SpecRef)
\* ---------------------------------------------------------------------

\* takeAutoMeasurement has returned with integrationTicks, in memory and in
\* the store, within the limits
C35_WithinLimitsOnReturn ==
    lastOp = "autoMeasured" =>
        /\ INTEG_TICKS >= uSecToTicks(MIN_INTEG_TIME_US)
        /\ INTEG_TICKS <= uSecToTicks(MAX_INTEG_TIME_US)
        /\ eeprom.intTime = INTEG_TICKS

\* C35: for every sequence of measured peaks, takeAutoMeasurement returns
\* with the integrationTicks in memory and in the store within
\* [minIntegration, maxIntegration], also after the overshoot rollback, and
\* the subtraction of the rollback never goes below 0.
C35_ReturnedWithinLimits ==
    /\ []C35_WithinLimitsOnReturn
    /\ [][(call.op = "takeAutoMeasurement" /\ lastOp' = "autoRollback")
            => INTEG_TICKS >= 2 * call.intTicksStep]_vars

\* a run has returned after a rollback with integrationTicks below the
\* minimum, in memory and in the store
C35_BelowMinimum ==
    /\ lastOp = "autoMeasured" /\ call.op = "none"
    /\ INTEG_TICKS < uSecToTicks(MIN_INTEG_TIME_US)
    /\ eeprom.intTime = INTEG_TICKS


\* ---------------------------------------------------------------------
\* Termination of the integration search on sources whose peak does not
\* decrease with the integration time (SourceSpec)
\* ---------------------------------------------------------------------

\* a source with a knee: the code source.high up to source.no ticks of
\* exposure, the full-scale code above
KneeCode(total) == IF total <= source.no THEN source.high ELSE ADC_MAX_VALUE

\* the code of a source that is a function of the exposure
SourceCode ==
    IF source.kind = "knee" THEN KneeCode(INTEG_TICKS + READ_TICKS)
    ELSE FlatCode(SourceRate, INTEG_TICKS + READ_TICKS, adcVoltages[adcRef_])

\* sources with a non-decreasing peak: dark (code 0 at every exposure),
\* saturated at the shortest exposure, linear, near the target below a knee
\* at 500 ticks, just below the band up to the shortest exposure, and faint
\* below a knee at 1000 ticks
MonotoneSources ==
    {[kind |-> "knee", high |-> 0, no |-> 2000000],
     [kind |-> "knee", high |-> 0, no |-> 0],
     [kind |-> "flat", high |-> 8000, no |-> 8000],
     [kind |-> "knee", high |-> 60000, no |-> 500],
     [kind |-> "knee", high |-> 63736, no |-> 145],
     [kind |-> "knee", high |-> 3, no |-> 1000]}

SourceInit ==
    /\ adcCode \in AdcCodes
    /\ apiCalls = 0
    /\ ret = NoReturn /\ colour = NoColour
    /\ source \in MonotoneSources
    /\ \E N \in 1..MaxPixels, s \in FlatSat :
           DeviceInit(N, SENSOR_TICKS_PER_PIXEL, TRUE,
                      [SavedImage(1000, 200) EXCEPT !.satHigh = s[1], !.satNo = s[2]], 0)

\* one readout cycle of the source
AcquireSource == AcquireFrom({SourceCode})

NextSource == AutoMaxRange \/ AutoProceed \/ AcquireSource

\* the calling thread is scheduled and every started cycle reaches Stop
SourceSpec ==
    SourceInit /\ [][NextSource]_vars /\ WF_vars(AutoProceed) /\ WF_vars(AcquireSource)

\* C36: for every source whose peak is a non-decreasing function of the
\* integration time, a dark one and one saturated at the shortest
\* integration included, the search makes finitely many iterations and
\* takeAutoMeasurement returns with the busy flag cleared.
C36_SearchReturns ==
    (call.op = "takeAutoMeasurement") ~> (lastOp = "autoMeasured" /\ ~measuringData_)

\* the search is back at the shortest integration time, with the faint peak
\* it started from and a step that ends nothing, after iterations that went
\* to the longest and back
C36_BackWhereItStarted ==
    /\ call.op = "takeAutoMeasurement" /\ call.pc = "loop"
    /\ source.kind = "knee" /\ source.high > 0
    /\ call.iter >= 4
    /\ INTEG_TICKS = uSecToTicks(MIN_INTEG_TIME_US)
    /\ FracLess(call.maxMeasuredVoltage, call.satVoltageLower)
    /\ call.intTicksStep > uSecToTicks(MAX_INTEG_TIME_US)


\* ---------------------------------------------------------------------
\* The duration override of takeMeasurement and takeBlackMeasurement
\* (SpecOverride)
\* ---------------------------------------------------------------------

\* durations asked for, in microseconds: none, below the minimum, between
\* ticks, and above the maximum
OverrideRequests == {0, 500, 1200, 20000000}

\* the two calls made one after another by one thread, no other call between
MeasureAny ==
    \/ ApiCalled /\ \E t \in OverrideRequests, e \in BOOLEAN : TakeMeasurement(t, e)
    \/ ApiCalled /\ \E t \in OverrideRequests : TakeBlackMeasurement(t)

NextOverride == MeasureAny \/ Return \/ ReturnBlack \/ Acquire

SpecOverride == Init /\ [][NextOverride]_vars

\* the calling thread is in one of the two calls
Measuring == call.op \in {"takeMeasurement", "takeBlackMeasurement"}

C37_Step ==
    /\ (call.op = "none" /\ call'.op \in {"takeMeasurement", "takeBlackMeasurement"})
          => /\ call'.saved = INTEG_TICKS
             /\ INTEG_TICKS' = IF call'.timeUs > 0 THEN SetIntTimeTicks(call'.timeUs)
                               ELSE INTEG_TICKS
             /\ eeprom' = eeprom
    /\ Measuring => eeprom' = eeprom
    /\ (Measuring /\ call'.op = "none")
          => /\ lastOp' \in {"measured", "measuredBlack"}
             /\ INTEG_TICKS' = call.saved
             /\ ~measuringData_'

\* C37: takeMeasurement and takeBlackMeasurement with a non-zero duration
\* run their acquisition with that duration and return with integrationTicks
\* at its value before the call; with a zero duration the configured
\* integrationTicks is used and unchanged; nothing is written to the store
\* from the call to its return.
C37_OverrideForOneAcquisition == [][C37_Step]_vars

\* an acquisition with an override different from the configured
\* integrationTicks has reached Stop and the call is about to return
C37_OverrideInEffect ==
    /\ Measuring /\ call.timeUs > 0
    /\ timerOn /\ specState = "STOP"
    /\ INTEG_TICKS = SetIntTimeTicks(call.timeUs)
    /\ INTEG_TICKS # call.saved


(* ------------------------------------------------------------------ *)
(* measureSaturationVoltages                                            *)
(* ------------------------------------------------------------------ *)
\* the configuration of the sensor and its black levels, the two saturation
\* voltages aside
Configuration ==
    [gain |-> gain_, adcRef |-> adcRef_, integ |-> INTEG_TICKS,
     lead |-> LEAD_TICKS, type |-> measurementType_,
     delay |-> extTrgMeasDelayUs_, calib |-> calibration_,
     bandPass |-> applyBandPassCorrection_, black |-> blackLevels_,
     gainPin |-> pins["GAIN"], refPins |-> <<pins["REF1"], pins["REF2"]>>]

\* the duration of the two acquisitions, in microseconds
SAT_MEASURE_TIME_US == 1000000

\* getAveragedMax: the mean of the pixels above 95% of the maximum, the
\* maximum itself when there is none
RECURSIVE AveragedFrom(_, _, _, _, _)
AveragedFrom(maxV, measurement, i, avgMax, count) ==
    IF i >= SPEC_PIXELS
    THEN (IF count # 0 THEN FracDiv(avgMax, <<count, 1>>) ELSE maxV)
    ELSE IF FracLess(FracMul(maxV, 95, 100), measurement[i])
         THEN AveragedFrom(maxV, measurement, i + 1,
                           FracAdd(avgMax, measurement[i]), count + 1)
         ELSE AveragedFrom(maxV, measurement, i + 1, avgMax, count)

getAveragedMax(maxV, measurement) ==
    AveragedFrom(maxV, measurement, 0, FracZero, 0)

\* a voltage in whole millivolts, as the saturation voltages are held here
MilliVolts(v) == MulDivQR(v[1], 1000, v[2])[1]

\* the value setSaturationVoltages keeps for a measured voltage v
SatKept(v, lowest, highest) ==
    IF ~FracLess(v, Volts(lowest)) /\ ~FracLess(Volts(highest), v)
    THEN MilliVolts(v) ELSE lowest

\* a faulty variant: the setting changed for the acquisitions left in place
RestoredNot(saved, now) == now

\* the setting put back after the acquisitions
Restored(saved, now) == saved

\* lines 1337-1347: the busy flag, gain and reference saved, the 4.096 V
\* reference and high gain selected
MeasureSaturationVoltages ==
    /\ call.op = "none" /\ ThreadRuns
    /\ measuringData_' = TRUE
    /\ adcRef_' = ADC_4_096V
    /\ gain_' = "HIGH_GAIN"
    /\ pins' = GainPins(RefPins(pins, ADC_4_096V), "HIGH_GAIN")
    /\ call' = [NoCall EXCEPT !.op = "measureSaturationVoltages", !.pc = "delay1",
                              !.savedGain = gain_, !.savedAdcRef = adcRef_,
                              !.found = Configuration]
    /\ lastOp' = "measureSaturationVoltages"
    /\ UNCHANGED <<buildVars, timerOn, specState, specDataReady, specCLK, specST,
                   specCounter, extTRGCounter, specData, specDataCounter,
                   LEAD_TICKS, extPinTRG, extPinLIGHT, INTEG_TICKS, accVars,
                   irqVars, measurementType_, extTrgMeasDelayUs_,
                   satVoltageHighGain_, satVoltageNoGain_, calibration_,
                   applyBandPassCorrection_, resVars, eeprom, adcCode, histVars>>

\* lines 1353 and 1364: readSpectrometer(1000000, false, false) up to its wait
SatRead ==
    /\ call.op = "measureSaturationVoltages" /\ call.pc \in {"delay1", "delay2"}
    /\ ThreadRuns
    /\ readSpectrometerEnter(SAT_MEASURE_TIME_US, FALSE, FALSE, INTEG_TICKS)
    /\ call' = [call EXCEPT !.pc = "wait",
                            !.phase = IF call.pc = "delay1" THEN "high" ELSE "no",
                            !.timeUs = SAT_MEASURE_TIME_US,
                            !.saved = INTEG_TICKS]
    /\ lastOp' = "saturationRead"
    /\ UNCHANGED <<buildVars, isr, measuringData_, cfgVars, resVars, eeprom,
                   envVars>>

\* readSpectrometer returns; processMeasurement(data_, MEASURE_VOLTAGE) and,
\* after the first acquisition, getAveragedMax
SatReadReturn ==
    /\ call.op = "measureSaturationVoltages" /\ call.pc = "wait"
    /\ ThreadRuns /\ WaitOver
    /\ readSpectrometerReturn(call.timeUs, call.saved)
    /\ data_' = processMeasurement(data, dataCounts, "MEASURE_VOLTAGE")
    /\ call' = [call EXCEPT
                  !.maxMeasuredVoltage = maxVal(data_'),
                  !.hgSatVoltage = IF call.phase = "high"
                                   THEN getAveragedMax(maxVal(data_'), data_')
                                   ELSE @,
                  !.pc = IF call.phase = "high" THEN "nogain" ELSE "restore"]
    /\ lastOp' = "saturationReturn"
    /\ UNCHANGED <<buildVars, specState, specDataReady, specCLK, specST,
                   specCounter, extTRGCounter, specData, specDataCounter,
                   LEAD_TICKS, accVars, isr, measuringData_, cfgVars,
                   blackLevels_, eeprom, envVars>>

\* line 1358: setGainInternal(NO_GAIN)
SatNoGain ==
    /\ call.op = "measureSaturationVoltages" /\ call.pc = "nogain" /\ ThreadRuns
    /\ gain_' = "NO_GAIN"
    /\ pins' = GainPins(pins, "NO_GAIN")
    /\ call' = [call EXCEPT !.pc = "delay2"]
    /\ lastOp' = "saturationNoGain"
    /\ UNCHANGED <<autoIdleVars, measuringData_, adcRef_, measurementType_,
                   extTrgMeasDelayUs_, satVoltageHighGain_, satVoltageNoGain_,
                   calibration_, applyBandPassCorrection_, resVars, eeprom>>

\* lines 1367-1376: getAveragedMax of the second acquisition, reference and
\* gain put back, the busy flag cleared, setSaturationVoltages with the two
\* voltages (its third argument is left to its default)
SatRestore ==
    /\ call.op = "measureSaturationVoltages" /\ call.pc = "restore" /\ ThreadRuns
    /\ adcRef_' = Restored(call.savedAdcRef, adcRef_)
    /\ gain_' = Restored(call.savedGain, gain_)
    /\ pins' = GainPins(RefPins(pins, adcRef_'), gain_')
    /\ measuringData_' = FALSE
    /\ LET hgSatVoltage == call.hgSatVoltage
           ngSatVoltage == getAveragedMax(call.maxMeasuredVoltage, data_)
       IN /\ satVoltageHighGain_' =
                IF FracLess(FracZero, hgSatVoltage)
                THEN SatKept(hgSatVoltage, MIN_SAT_VOLTAGE_HIGH_GAIN,
                             MAX_SAT_VOLTAGE_HIGH_GAIN)
                ELSE satVoltageHighGain_
          /\ satVoltageNoGain_' =
                IF FracLess(FracZero, ngSatVoltage)
                THEN SatKept(ngSatVoltage, MIN_SAT_VOLTAGE_NO_GAIN,
                             MAX_SAT_VOLTAGE_NO_GAIN)
                ELSE satVoltageNoGain_
          /\ \E storeInEeprom \in BOOLEAN :
                eeprom' = [eeprom EXCEPT
                    !.satHigh = IF storeInEeprom /\ FracLess(FracZero, hgSatVoltage)
                                THEN satVoltageHighGain_' ELSE @,
                    !.satNo = IF storeInEeprom /\ FracLess(FracZero, ngSatVoltage)
                              THEN satVoltageNoGain_' ELSE @]
    /\ call' = NoCall
    /\ lastOp' = "saturationMeasured"
    /\ UNCHANGED <<autoIdleVars, measurementType_, extTrgMeasDelayUs_,
                   calibration_, applyBandPassCorrection_, resVars>>

(* ------------------------------------------------------------------ *)
(* SpecSat: measureSaturationVoltages and takeMeasurement called by one *)
(* thread, one after another                                            *)
(* ------------------------------------------------------------------ *)
\* ADC codes of a cycle: dark, 2.5 V and 3.98 V at the 4.096 V reference,
\* full scale
SatCodes == {0, 40000, 63736, ADC_MAX_VALUE}

SatInit ==
    /\ adcCode \in AdcCodes
    /\ apiCalls = 0
    /\ HostInit
    /\ \E N \in 1..MaxPixels, g \in Gains, r \in AdcRefs :
           DeviceInit(N, SENSOR_TICKS_PER_PIXEL, TRUE,
                      [SavedImage(1000, 200) EXCEPT !.gain = g, !.adcRef = r], 0)

SaturationCall == ApiCalled /\ MeasureSaturationVoltages
SatProceed == SatRead \/ SatReadReturn \/ SatNoGain \/ SatRestore
MeasureFirst == ApiCalled /\ \E r \in Requests : TakeMeasurement(r[1], r[2])
AcquireSat == AcquireFrom(SatCodes)

NextSat == SaturationCall \/ SatProceed \/ MeasureFirst \/ Return \/ AcquireSat

SpecSat == SatInit /\ [][NextSat]_vars

\* measureSaturationVoltages returns
SaturationReturns == call.op = "measureSaturationVoltages" /\ call'.op = "none"

\* no step of the call writes another entry of the store
StoreKept ==
    call.op = "measureSaturationVoltages" =>
        \A f \in DOMAIN eeprom \ {"satHigh", "satNo"} : eeprom'[f] = eeprom[f]

\* C38 as stated: when measureSaturationVoltages returns, the busy flag is
\* clear and the configuration (gain, reference, integration ticks and every
\* other field but the two saturation voltages) is the one found at the call
C38_OnlySaturationDiffers ==
    [][SaturationReturns => ~measuringData_' /\ Configuration' = call.found]_vars

C38_Step ==
    /\ SaturationReturns =>
          /\ ~measuringData_'
          /\ LEAD_TICKS' = DEF_LEAD_TICKS
          /\ [Configuration' EXCEPT !.lead = call.found.lead] = call.found
    /\ StoreKept

\* C38: when measureSaturationVoltages returns, the busy flag is clear, the
\* lead ticks are the default and every other field of the configuration but
\* the two saturation voltages is the one found at the call; no step of the
\* call writes a store entry other than the two saturation voltages
C38_LeadTicksReset == [][C38_Step]_vars

\* measureSaturationVoltages has returned to a device that had no gain and a
\* reference other than 4.096 V, with a new saturation voltage
C38_RestoredAfterMeasuring ==
    /\ lastOp = "saturationMeasured"
    /\ gain_ = "NO_GAIN" /\ adcRef_ = ADC_2_5V
    /\ satVoltageHighGain_ # eeprom.satHigh


(* ------------------------------------------------------------------ *)
(* The start line over a cycle                                          *)
(* ------------------------------------------------------------------ *)
\* the states in which the waveform table is replayed
TablePasses == {"RESET", "RESET2", "READ"}

\* a tick of the clock interrupt before Stop is entered
CycleTick == lastOp' = "tick" /\ specState # "STOP"

\* the tick is the first or the second of a pass through the table
StartOfPass == specState \in TablePasses /\ ticksIn[specState] < 2

C39_Tick == CycleTick => (pins'["ST"] = LOW <=> StartOfPass)

\* C39: on every tick from the start of Lead until Stop is entered the ST pin
\* is driven low if the tick is the first or the second of Reset, Reset2 or
\* Read, and high otherwise (all of Lead, Integration and Trail included)
C39_StartLowTwoTicksPerPass == [][C39_Tick]_vars

\* the third tick of Read has driven ST high again after two low ticks, with
\* both reset passes behind
C39_ThirdTickOfRead ==
    /\ lastOp = "tick" /\ specState = "READ" /\ ticksIn["READ"] = 3
    /\ ticksIn["RESET"] = READ_TICKS /\ ticksIn["RESET2"] = READ_TICKS
    /\ pins["ST"] = HIGH

====
